---- MODULE Spec2Model ----
(***************************************************************************)
(* Model of the pursuit controller of horse-head-farms (src/aiSeeker.js): *)
(* AISeeker.update and the methods it calls (makeDecision, perception,    *)
(* getClosestPlayer, patrol/chase/search/idle, catchPlayer, the stuck     *)
(* detection block), together with the writes other objects make to the   *)
(* seeker (GameManager.startSeekingPhase) and to a targeted participant.  *)
(* The steering of moveTowards, the perception functions on their own,    *)
(* the stealth score of the local participant (src/player.js), the order  *)
(* of the steps of an animation frame, the rounds of the game manager,    *)
(* the navigation grid (src/NavigationGrid.js) and its coordinate         *)
(* conversions, the patrol route and the hearing of the local participant *)
(* have their own specifications over the same variables.                 *)
(*                                                                         *)
(* Geometry is kept relative to the seeker: a participant's `dist` is     *)
(* this.position.distanceTo(player.position) in tenths of a unit           *)
(* (NoPosition when player.position is missing), `angle` is the angle in  *)
(* degrees between the seeker's facing vector and the direction to the    *)
(* participant, `eyeDist`/`hit` are the distances in tenths from the eye   *)
(* point to the participant and to the closest ray hit.  A Math.random()  *)
(* sample is an integer number of hundredths in 0..99.                    *)
(***************************************************************************)
EXTENDS Integers, Sequences, FiniteSets, TLC

VARIABLES
    state,               \* this.state
    target,              \* this.target: NullRef or the referenced participant object
    lastKnownPosition,   \* this.lastKnownPosition: None or the id of the participant whose position was cloned
    searchTime,          \* this.searchTime (seconds)
    currentPatrolIndex,  \* this.currentPatrolIndex
    sinceDecision,       \* Date.now() - this.lastDecisionTime (ms), saturated above decisionInterval
    stuckCheckTimer,     \* this.stuckCheckTimer (seconds)
    stuckCounter,        \* this.stuckCounter
    displaced,           \* position.distanceToSquared(lastPositionForStuckCheck) >= 0.1
    room,                \* this.room is set
    catchCount,          \* catchPlayer invocations since the last decision step (saturated)
    sentCount,           \* playerCaught messages sent since the last decision step (saturated)
    ev,                  \* log of the last call: what update() did
    lastSamples,         \* history: the last two stuck-check samples, TRUE for a near-zero displacement
    steering,            \* log of the last moveTowards call: feeler hits, chosen feeler, speed factor
    sight,               \* log of the last perception: the players argument, the entries ray-checked, the visible and the audible list
    player,              \* the local Player object (src/player.js)
    dynamicHideZones,    \* environment.getDynamicHideZones()
    frame,               \* the animation frame: the statement of animate() to run next, and what ran so far
                         \* (in the patrol specification: whether the tick found the seeker near its waypoint)
    grid                 \* the NavigationGrid: the last generateGrid call, the last getNeighbors call and
                         \* the last coordinate conversion or getNode call

\* the variables of the seeker's controller
seekerVars == <<state, target, lastKnownPosition, searchTime, currentPatrolIndex,
                sinceDecision, stuckCheckTimer, stuckCounter, displaced, room,
                catchCount, sentCount, lastSamples>>

\* the variables of the local participant and its environment
playerVars == <<player, dynamicHideZones>>

\* the variables of the frame loop and of the navigation grid
worldVars == <<frame, grid>>

vars == <<state, target, lastKnownPosition, searchTime, currentPatrolIndex,
          sinceDecision, stuckCheckTimer, stuckCounter, displaced, room,
          catchCount, sentCount, ev, lastSamples, steering, sight, player,
          dynamicHideZones, frame, grid>>

None == "none"
NoPosition == 0 - 1      \* player.position is missing
Undefined == 0 - 1       \* a property the object does not have
NoHit == 0 - 1           \* result.hasHit is false

-----------------------------------------------------------------------------
(* Program constants *)

decisionInterval == 1000
stuckCheckInterval == 2
stuckThreshold == 2
viewDistance == 150
halfViewAngle == 30
hearingDistance == 80
pointBlankStealth == 90
pointBlankDist == 30
losTolerance == 5
catchDistance == 15
searchDuration == 10
numPatrolPoints == 8
Infinity == 1000000

(* Bounds of the model *)

MaxCount == 2

PlayerIds == {"p1", "p2"}
States == {"idle", "patrolling", "chasing", "searching"}

-----------------------------------------------------------------------------
(* Participants as the seeker reads them *)

\* A participant entry of the `players` argument.  stealthLevel = Undefined stands
\* for an object without the stealth properties; roll is the Math.random()
\* sample drawn for the entry if the probability gate is reached.
Entry(id, alive, d, sl, ang, h, run, spd, crouch, dmg, r) ==
    [present |-> TRUE, id |-> id, isAlive |-> alive, dist |-> d, stealthLevel |-> sl,
     maxStealth |-> 100, angle |-> ang, eyeDist |-> d,
     hit |-> h, isRunning |-> run, speed |-> spd, isCrouching |-> crouch,
     canDamage |-> dmg, roll |-> r]

\* a null / undefined element of the list
NullEntry == [Entry(None, FALSE, NoPosition, Undefined, 0, NoHit, FALSE, 0, FALSE, FALSE, 0)
                EXCEPT !.present = FALSE]

\* The fields of the referenced participant that the seeker reads after the
\* decision step (chase, catchPlayer).
Ref(p) == [id |-> p.id, isAlive |-> p.isAlive, dist |-> p.dist, canDamage |-> p.canDamage]

\* this.target = null
NullRef == [id |-> None, isAlive |-> FALSE, dist |-> NoPosition, canDamage |-> FALSE]

\* mutant: the skip does not look at isAlive
ValidForSight_deadToo(p) ==
    /\ p.present
    /\ p.dist /= NoPosition
    /\ p.stealthLevel /= Undefined

\* aiSeeker.js:258 / 324: the defensive skip of perception
ValidForSight(p) ==
    /\ p.present
    /\ p.isAlive
    /\ p.dist /= NoPosition
    /\ p.stealthLevel /= Undefined
    /\ p.maxStealth /= Undefined

\* (isCrouching is always a boolean of the entries modelled here)
ValidForHearing(p) == ValidForSight(p)

\* mutant: no override, every participant goes through the gate
PointBlank_never(p) == FALSE

\* aiSeeker.js:268: stealthy but very close
PointBlank(p) == p.stealthLevel >= pointBlankStealth /\ p.dist <= pointBlankDist

\* mutant: the probability gate lets every sample through
PassesGate_anySample(p) == ~(p.dist > viewDistance)

\* aiSeeker.js:272-279: distance and probability gate;
\* Math.random() >= 1 - stealthLevel/maxStealth rejects
PassesGate(p) ==
    /\ ~(p.dist > viewDistance)
    /\ ~(p.roll * p.maxStealth >= 100 * (p.maxStealth - p.stealthLevel))

\* mutant: the seeker sees all around
InCone_all(p) == TRUE

\* aiSeeker.js:287
InCone(p) == ~(p.angle > halfViewAngle)

\* the entry reaches world.raycastClosest (aiSeeker.js:300)
ReachesLoS(p) ==
    /\ ValidForSight(p)
    /\ (PointBlank(p) \/ PassesGate(p))
    /\ InCone(p)

\* mutant: the result of the ray query is ignored
Occluded_never(p) == FALSE

\* aiSeeker.js:302-312
Occluded(p) == p.hit /= NoHit /\ p.hit < p.eyeDist - losTolerance

IsVisible(p) == ReachesLoS(p) /\ ~Occluded(p)

getVisiblePlayers(players) == SelectSeq(players, IsVisible)

\* mutant: only running makes noise
NoiseBase_runOnly(p) == IF p.isRunning THEN 4 ELSE 0

\* aiSeeker.js:332-347: noise in units of 1/(4 * 2 * maxStealth)
NoiseBase(p) == IF p.isRunning THEN 4 ELSE IF p.speed > 1 THEN 2 ELSE 0

NoiseLevel(p) ==
    (IF p.isCrouching THEN NoiseBase(p) ELSE 2 * NoiseBase(p)) * (2 * p.maxStealth - p.stealthLevel)

\* aiSeeker.js:349: noiseLevel > 0 && distance < hearingDistance * noiseLevel
IsAudible(p) ==
    /\ ValidForHearing(p)
    /\ NoiseLevel(p) > 0
    /\ p.dist * 16 * p.maxStealth < hearingDistance * NoiseLevel(p)

getAudiblePlayers(players) == SelectSeq(players, IsAudible)

RECURSIVE ClosestFrom(_, _, _, _)
ClosestFrom(players, i, closest, closestDistance) ==
    IF i > Len(players) THEN closest
    ELSE IF players[i].dist < closestDistance
         THEN ClosestFrom(players, i + 1, Ref(players[i]), players[i].dist)
         ELSE ClosestFrom(players, i + 1, closest, closestDistance)

\* mutant: a later entry at the same distance replaces the earlier one
RECURSIVE ClosestFromLast(_, _, _, _)
ClosestFromLast(players, i, closest, closestDistance) ==
    IF i > Len(players) THEN closest
    ELSE IF players[i].dist <= closestDistance
         THEN ClosestFromLast(players, i + 1, Ref(players[i]), players[i].dist)
         ELSE ClosestFromLast(players, i + 1, closest, closestDistance)

getClosestPlayer_lastOnTie(players) == ClosestFromLast(players, 1, NullRef, Infinity)

getClosestPlayer(players) == ClosestFrom(players, 1, NullRef, Infinity)

-----------------------------------------------------------------------------
(* The seeker as a record, so that the steps of update() compose *)

Seeker ==
    [state |-> state, target |-> target, lastKnownPosition |-> lastKnownPosition,
     searchTime |-> searchTime, currentPatrolIndex |-> currentPatrolIndex,
     sinceDecision |-> sinceDecision, stuckCheckTimer |-> stuckCheckTimer,
     stuckCounter |-> stuckCounter, displaced |-> displaced,
     catchCount |-> catchCount, sentCount |-> sentCount, sampledBefore |-> lastSamples /= <<>>]

Sat(n) == IF n > MaxCount THEN MaxCount ELSE n

\* aiSeeker.js:230-234: chase the closest visible player
ChaseClosest(s, visiblePlayers) ==
    LET chosen == getClosestPlayer(visiblePlayers)
    IN  [s EXCEPT !.target = chosen,
                  !.state = "chasing",
                  !.lastKnownPosition = chosen.id]

\* mutant: a participant that is heard is chased
SearchClosest_chases(s, audiblePlayers) ==
    LET chosen == getClosestPlayer(audiblePlayers)
    IN  [s EXCEPT !.target = chosen,
                  !.state = "chasing",
                  !.lastKnownPosition = chosen.id]

\* mutant: the search starts without a last known position
SearchClosest_noPosition(s, audiblePlayers) ==
    [s EXCEPT !.target = getClosestPlayer(audiblePlayers),
              !.state = "searching",
              !.searchTime = 0]

\* aiSeeker.js:235-240: search near the closest audible player
SearchClosest(s, audiblePlayers) ==
    LET chosen == getClosestPlayer(audiblePlayers)
    IN  [s EXCEPT !.target = chosen,
                  !.lastKnownPosition = chosen.id,
                  !.state = "searching",
                  !.searchTime = 0]

\* mutant: the search timer is compared but never advanced
ContinueSearch_noCount(s) ==
    IF s.searchTime > searchDuration
    THEN [s EXCEPT !.state = "patrolling", !.lastKnownPosition = None]
    ELSE s

\* aiSeeker.js:241-247: continue searching for a bit
ContinueSearch(s) ==
    LET t == s.searchTime + decisionInterval \div 1000
    IN  IF t > searchDuration
        THEN [s EXCEPT !.searchTime = t, !.state = "patrolling", !.lastKnownPosition = None]
        ELSE [s EXCEPT !.searchTime = t]

\* mutant: no default, the state is left as it is
DefaultPatrol_keep(s) == s

\* aiSeeker.js:248-251: default to patrolling
DefaultPatrol(s) == [s EXCEPT !.state = "patrolling"]

\* mutant: the previous target is kept until something is perceived
ResetTarget_keep(s) == s

\* aiSeeker.js:223-224: reset target
ResetTarget(s) == [s EXCEPT !.target = NullRef]

\* aiSeeker.js:222-252.  The result is the seeker after the call, whether the
\* call threw, and the two perception lists.  `in.iterable` is FALSE when the
\* players argument cannot be iterated (null); `in.worldThrows` is TRUE when
\* world.raycastClosest throws (this.world undefined, main.js:49).
makeDecision(s, in) ==
    LET s0 == ResetTarget(s)
        visiblePlayers == getVisiblePlayers(in.players)
        audiblePlayers == getAudiblePlayers(in.players)
        threw == \/ ~in.iterable
                 \/ /\ in.worldThrows
                    /\ \E i \in 1..Len(in.players) : ReachesLoS(in.players[i])
        s1 == IF Len(visiblePlayers) > 0 THEN ChaseClosest(s0, visiblePlayers)
              ELSE IF Len(audiblePlayers) > 0 THEN SearchClosest(s0, audiblePlayers)
              ELSE IF s0.lastKnownPosition /= None /\ s0.state = "searching"
              THEN ContinueSearch(s0)
              ELSE DefaultPatrol(s0)
    IN  IF threw
        THEN [s |-> s0, threw |-> TRUE, visible |-> <<>>, audible |-> <<>>]
        ELSE [s |-> s1, threw |-> FALSE, visible |-> visiblePlayers, audible |-> audiblePlayers]

\* aiSeeker.js:445-514: the feeler rays are cast first (and throw when the
\* world does); then the position advances by velocity * deltaTime, which
\* changes the distance to the target and the displacement since the last
\* stuck sample (in.newDist, in.newDisplaced) when deltaTime > 0.  Until the
\* first sample lastPositionForStuckCheck is the origin, two units below the
\* height the seeker keeps, so the seeker counts as displaced wherever it is.
moveTowards(s, in) ==
    IF in.worldThrows
    THEN [s |-> s, threw |-> TRUE, caught |-> FALSE]
    ELSE IF in.deltaTime = 0
    THEN [s |-> s, threw |-> FALSE, caught |-> FALSE]
    ELSE [s |-> [s EXCEPT !.displaced = in.newDisplaced \/ ~s.sampledBefore,
                          !.target = IF s.target.id /= None /\ s.target.dist /= NoPosition
                                     THEN [s.target EXCEPT !.dist = in.newDist]
                                     ELSE s.target],
          threw |-> FALSE, caught |-> FALSE]

\* mutant: a catch ends the chase at once
catchPlayer_endsChase(s, in) == [s EXCEPT !.state = "patrolling", !.catchCount = Sat(s.catchCount + 1)]

\* aiSeeker.js:551-577: every failure inside is caught and logged there.
\* player.takeDamage(100) is Player.takeDamage (player.js:762): health 0, die().
catchPlayer(s, in) ==
    LET damaged == IF s.target.canDamage /\ ~in.damageThrows
                   THEN [s EXCEPT !.target.isAlive = FALSE]
                   ELSE s
        sent == IF room /\ ~(s.target.canDamage /\ in.damageThrows)
                THEN [damaged EXCEPT !.sentCount = Sat(damaged.sentCount + 1)]
                ELSE damaged
    IN  [sent EXCEPT !.catchCount = Sat(sent.catchCount + 1)]

\* mutant: reaching a waypoint skips the one after it
patrol_skipsOne(s, in) ==
    IF in.atWaypoint
    THEN [s |-> [s EXCEPT !.currentPatrolIndex = (s.currentPatrolIndex + 2) % numPatrolPoints],
          threw |-> FALSE, caught |-> FALSE]
    ELSE moveTowards(s, in)

\* aiSeeker.js:372-387 (setupPatrolPoints, aiSeeker.js:141-153, has filled
\* patrolPoints); in.atWaypoint is the test distance < 2 of line 379
patrol(s, in) ==
    IF in.atWaypoint
    THEN [s |-> [s EXCEPT !.currentPatrolIndex = (s.currentPatrolIndex + 1) % numPatrolPoints],
          threw |-> FALSE, caught |-> FALSE]
    ELSE moveTowards(s, in)

\* aiSeeker.js:389-416
chase(s, in) ==
    IF s.target.id = None
    THEN [s |-> [s EXCEPT !.state = "patrolling"], threw |-> FALSE, caught |-> FALSE]
    ELSE IF s.target.dist = NoPosition
    THEN [s |-> [s EXCEPT !.state = "patrolling"], threw |-> FALSE, caught |-> FALSE]
    ELSE IF s.target.dist < catchDistance
    THEN [s |-> catchPlayer(s, in), threw |-> FALSE, caught |-> TRUE]
    ELSE LET m == moveTowards(s, in)
         IN  IF m.threw THEN m
             ELSE [m EXCEPT !.s.lastKnownPosition = m.s.target.id]

\* aiSeeker.js:418-437
search(s, in) ==
    IF s.lastKnownPosition = None
    THEN [s |-> [s EXCEPT !.state = "patrolling"], threw |-> FALSE, caught |-> FALSE]
    ELSE moveTowards(s, in)

\* aiSeeker.js:439-443: only the facing angle changes
idle(s, in) == [s |-> s, threw |-> FALSE, caught |-> FALSE]

\* aiSeeker.js:171-184
Behaviour(s, in) ==
    CASE s.state = "patrolling" -> patrol(s, in)
      [] s.state = "chasing"    -> chase(s, in)
      [] s.state = "searching"  -> search(s, in)
      [] OTHER                  -> idle(s, in)

\* aiSeeker.js:193-194: the stuck check samples the position on this tick
SampleDue(s, in) == s.stuckCheckTimer + in.deltaTime >= stuckCheckInterval

\* aiSeeker.js:195: distanceToSquared(lastPositionForStuckCheck) < 0.1
LowDisplacement(s) == ~s.displaced

\* mutant: one low sample is enough
Recovers_afterOne(s) == LowDisplacement(s) /\ s.stuckCounter + 1 >= 1

\* aiSeeker.js:195-208: the sample increments the counter to stuckThreshold and
\* the random turn is applied
Recovers(s) == LowDisplacement(s) /\ s.stuckCounter + 1 >= stuckThreshold

\* aiSeeker.js:192-214; a recovery only turns the seeker (this.rotation)
StuckDetection(s, in) ==
    IF SampleDue(s, in)
    THEN [s EXCEPT !.stuckCheckTimer = 0,
                   !.displaced = FALSE,
                   !.stuckCounter = IF LowDisplacement(s)
                                    THEN IF Recovers(s) THEN 0 ELSE s.stuckCounter + 1
                                    ELSE 0]
    ELSE [s EXCEPT !.stuckCheckTimer = s.stuckCheckTimer + in.deltaTime]

\* What the log keeps of a perception list: who, and how far
Brief(players) == [i \in 1..Len(players) |-> [id |-> players[i].id, dist |-> players[i].dist]]

\* The log of one call of update(): the phase it was given, the state and target it started from,
\* whether the phase gate returned early, whether makeDecision ran, where an
\* exception was caught by update ("decision", "behaviour" or "none"), the
\* perception lists of the decision step, the ids of the entries that passed
\* the defensive skip, the state and target when makeDecision returned, the
\* per-state behaviour that ran, whether catchPlayer ran and whether it
\* caught a failure of its own; and of the stuck detection block, whether it
\* took a sample, whether the sample showed a near-zero displacement and
\* whether the random turn of the recovery was applied (set by update).
\* `waited` is, for a call that ran makeDecision, the time since the previous
\* call of update().
Log(s, gated, decided, threw, d, in, behaviour, caughtNow) ==
    [op |-> "update", phase |-> in.phase, preState |-> s.state, preTarget |-> s.target.id,
     gated |-> gated, decided |-> decided, waited |-> IF decided THEN in.adv ELSE 0,
     threw |-> threw,
     visible |-> Brief(d.visible), audible |-> Brief(d.audible),
     valid |-> IF decided /\ in.iterable
               THEN {in.players[i].id : i \in {j \in 1..Len(in.players) : ValidForSight(in.players[j])}}
               ELSE {},
     decState |-> IF decided /\ ~d.threw THEN d.s.state ELSE None,
     decTarget |-> IF decided /\ ~d.threw THEN d.s.target.id ELSE None,
     behaviour |-> behaviour, caught |-> caughtNow,
     captureFailed |-> caughtNow /\ d.s.target.canDamage /\ in.damageThrows,
     sampled |-> FALSE, low |-> FALSE, recovered |-> FALSE]

\* the log entry of a step that is not a call of update()
Other(op) ==
    [op |-> op, phase |-> None, preState |-> None, preTarget |-> None,
     gated |-> FALSE, decided |-> FALSE, waited |-> 0, threw |-> "none",
     visible |-> <<>>, audible |-> <<>>, valid |-> {},
     decState |-> None, decTarget |-> None, behaviour |-> None, caught |-> FALSE,
     captureFailed |-> FALSE, sampled |-> FALSE, low |-> FALSE, recovered |-> FALSE]

NoDecision(s) == [s |-> s, threw |-> FALSE, visible |-> <<>>, audible |-> <<>>]

\* mutant: only a missing gameState is gated
PhaseGate_missingOnly(in) == in.phase = None

\* aiSeeker.js:157: if (!gameState || gameState.phase !== 'seeking')
PhaseGate(in) == in.phase = None \/ in.phase /= "seeking"

\* mutant: the error is logged and the state left alone
OnError_keep(s) == s

\* aiSeeker.js:216-219: the catch block of update()
OnError(s) == [s EXCEPT !.state = "idle"]

\* aiSeeker.js:165: now - this.lastDecisionTime > this.decisionInterval
DecisionDue(s) == s.sinceDecision > decisionInterval

\* Date.now() has advanced by adv since the previous call
Elapse(s, adv) ==
    [s EXCEPT !.sinceDecision = IF s.sinceDecision + adv > decisionInterval
                                THEN decisionInterval + 1 ELSE s.sinceDecision + adv]

\* aiSeeker.js:155-220: the seeker and the log after update(deltaTime, players, gameState).
\* in.phase is gameState.phase, None for a missing gameState; in.adv is the
\* time since the previous call as Date.now() measures it.
update(s, in) ==
    LET sT == Elapse(s, in.adv)
        decides == DecisionDue(sT)
        d == IF decides
             THEN makeDecision([sT EXCEPT !.catchCount = 0, !.sentCount = 0], in)
             ELSE NoDecision(sT)
        sD == IF decides /\ ~d.threw THEN [d.s EXCEPT !.sinceDecision = 0] ELSE d.s
        b == Behaviour(sD, in)
        sE == StuckDetection(b.s, in)
    IN  IF PhaseGate(in)
        THEN [s |-> [sT EXCEPT !.state = "idle"],
              ev |-> Log(s, TRUE, FALSE, "none", NoDecision(sT), in, None, FALSE)]
        ELSE IF d.threw
        THEN [s |-> OnError(d.s),
              ev |-> Log(s, FALSE, decides, "decision", d, in, None, FALSE)]
        ELSE IF b.threw
        THEN [s |-> OnError(b.s),
              ev |-> Log(s, FALSE, decides, "behaviour", d, in, sD.state, FALSE)]
        ELSE [s |-> sE,
              ev |-> [Log(s, FALSE, decides, "none", d, in, sD.state, b.caught)
                        EXCEPT !.sampled = SampleDue(b.s, in),
                               !.low = SampleDue(b.s, in) /\ LowDisplacement(b.s),
                               !.recovered = SampleDue(b.s, in) /\ Recovers(b.s)]]

-----------------------------------------------------------------------------
(* The state machine *)

\* the last two of the samples taken so far, the newest last
Remember(samples, low) ==
    IF Len(samples) < 2 THEN Append(samples, low) ELSE <<samples[2], low>>

InstallSeeker(r) ==
    /\ state' = r.s.state
    /\ target' = r.s.target
    /\ lastKnownPosition' = r.s.lastKnownPosition
    /\ searchTime' = r.s.searchTime
    /\ currentPatrolIndex' = r.s.currentPatrolIndex
    /\ sinceDecision' = r.s.sinceDecision
    /\ stuckCheckTimer' = r.s.stuckCheckTimer
    /\ stuckCounter' = r.s.stuckCounter
    /\ displaced' = r.s.displaced
    /\ catchCount' = r.s.catchCount
    /\ sentCount' = r.s.sentCount
    /\ ev' = r.ev
    /\ lastSamples' = IF r.ev.sampled THEN Remember(lastSamples, r.ev.low) ELSE lastSamples
    /\ UNCHANGED room

Install(result) ==
    \E r \in {result} :
        InstallSeeker(r) /\ UNCHANGED <<steering, sight, playerVars, worldVars>>

\* no moveTowards call yet: velocity (0,0,0)
NoSteering == [hits |-> <<>>, chosenDirection |-> 0, bestDistance |-> 0 - 1,
               foundClearPath |-> FALSE, speedFactor |-> 0]

\* no getVisiblePlayers call yet
NoSight == [players |-> <<>>, rayCast |-> <<>>, visible |-> <<>>, audible |-> <<>>]

\* player.js:20-34, 86, 183: the Player after its constructor, which ends with
\* updateStealth() on a body at rest: base 5.  `position` is the x coordinate
\* of body.position; vh and vy are the horizontal and the vertical speed of
\* body.velocity in tenths of a unit per second.
NewPlayer ==
    [isAlive |-> TRUE, isCrouching |-> FALSE, isRunning |-> FALSE,
     inHideSpot |-> FALSE, inDynamicHideZone |-> FALSE, currentDynamicZoneBonus |-> 0,
     stealthLevel |-> 5, isHiding |-> FALSE, position |-> 0, vh |-> 0, vy |-> 0]

\* a dynamic concealment zone of the environment, along the x axis
SphereZone(center, radius, stealthBonus) ==
    [type |-> "sphere", center |-> center, radius |-> radius, min |-> 0, max |-> 0,
     stealthBonus |-> stealthBonus]

BoxZone(min, max, stealthBonus) ==
    [type |-> "box", center |-> 0, radius |-> 0, min |-> min, max |-> max,
     stealthBonus |-> stealthBonus]

\* part_002:801-813: the two predefined zones, a box with bonus 20 away from the
\* spawn point and a sphere with bonus 25
PredefinedZones == <<BoxZone(1, 2, 20), SphereZone(3, 1, 25)>>

\* before the first animation frame
NoFrame == [pc |-> "world.step", events |-> <<>>]

\* NavigationGrid.js:23-34: the grid of the constructor's dimensions; cells
\* are <<gx, gz>>
widthCells == 3
depthCells == 2

Cells == (0..(widthCells - 1)) \X (0..(depthCells - 1))

NoCell == <<0 - 1, 0 - 1>>

\* a world position (horizontal coordinates in world units, height in
\* tenths), and a null one
WorldPos(x, y, z) == [present |-> TRUE, x |-> x, y |-> y, z |-> z]

NullPos == [present |-> FALSE, x |-> 0, y |-> 0, z |-> 0]

\* this.grid = []: nothing generated yet
NoGrid ==
    [generated |-> FALSE, ground |-> [c \in Cells |-> NoHit], bodies |-> <<>>,
     hasHit |-> [c \in Cells |-> FALSE], slopeAngle |-> [c \in Cells |-> 0],
     slopePass |-> [c \in Cells |-> FALSE], worldY |-> [c \in Cells |-> 0],
     walkable |-> [c \in Cells |-> FALSE], node |-> NoCell, neighbors |-> <<>>,
     op |-> "none", index |-> NoCell, worldPos |-> NullPos, coords |-> NoCell,
     found |-> NoCell]

\* the objects around the seeker as they are when the game starts
CollaboratorsInit ==
    /\ lastSamples = <<>>
    /\ steering = NoSteering
    /\ sight = NoSight
    /\ player = NewPlayer
    /\ frame = NoFrame

\* aiSeeker.js:11-44: the constructor.  lastDecisionTime = 0, so the first
\* call decides; position (0,2,0) is 2 away from lastPositionForStuckCheck.
SeekerInit ==
    /\ state = "idle"
    /\ target = NullRef
    /\ lastKnownPosition = None
    /\ searchTime = 0
    /\ currentPatrolIndex = 0
    /\ sinceDecision = decisionInterval + 1
    /\ stuckCheckTimer = 0
    /\ stuckCounter = 0
    /\ displaced = TRUE
    /\ room = FALSE
    /\ catchCount = 0
    /\ sentCount = 0
    /\ ev = Other("new")

\* the game as main.js sets it up: the seeker, the local participant and the
\* environment's zones
Init ==
    /\ SeekerInit
    /\ CollaboratorsInit
    /\ dynamicHideZones = PredefinedZones
    /\ grid = NoGrid

(* Inputs of the controller specification *)

Dists == {10, 50}
Advances == {400, 1001}

\* p1 is the local Player object (it has takeDamage), p2 a plain record
IsPlayerObject(id) == id = "p1"

Seen(id, d)  == Entry(id, TRUE, d, 0, 0, NoHit, FALSE, 0, FALSE, IsPlayerObject(id), 50)
Heard(id, d) == Entry(id, TRUE, d, 0, 90, NoHit, TRUE, 60, FALSE, IsPlayerObject(id), 50)
Quiet(id, d) == Entry(id, TRUE, d, 100, 90, NoHit, FALSE, 0, TRUE, IsPlayerObject(id), 50)
Dead(id, d)  == [Seen(id, d) EXCEPT !.isAlive = FALSE]
Lost(id)     == [Seen(id, NoPosition) EXCEPT !.isRunning = TRUE]

Entries(id) ==
    {Seen(id, d) : d \in Dists} \cup {Heard(id, d) : d \in Dists}
        \cup {Quiet(id, 50), Dead(id, 10), Lost(id)}

PlayerLists ==
    {<<>>} \cup {<<e>> : e \in Entries("p1") \cup Entries("p2")}
           \cup {<<a, b>> : a \in Entries("p1"), b \in Entries("p2")}
           \cup {<<b, a>> : a \in {Seen("p1", d) : d \in Dists}, b \in {Seen("p2", d) : d \in Dists}}

Input(phase, adv, dt, players, iterable, worldThrows, damageThrows, atWaypoint, nd, ndisp) ==
    [phase |-> phase, adv |-> adv, deltaTime |-> dt, players |-> players,
     iterable |-> iterable, worldThrows |-> worldThrows, damageThrows |-> damageThrows,
     atWaypoint |-> atWaypoint, newDist |-> nd, newDisplaced |-> ndisp]

\* update() reads its players argument only in makeDecision: a call that
\* does not decide is the same for every list
ListsRead(lists, adv) == IF DecisionDue(Elapse(Seeker, adv)) THEN lists ELSE {<<>>}

\* GameManager.update -> aiSeeker.update in the seeking phase, no collaborator
\* failing.  The controller specification runs with the simulation clock
\* stopped (deltaTime = 0): the seeker turns and decides but does not advance,
\* and distances change only because the participants move.
Update ==
    \E adv \in Advances :
      \E players \in ListsRead(PlayerLists, adv) :
        Install(update(Seeker, Input("seeking", adv, 0, players, TRUE, FALSE, FALSE, FALSE, 10, TRUE)))

\* update() while a collaborator fails: the players argument is null, the
\* physics world throws on a ray query, or takeDamage throws
UpdateFailing ==
    \E adv \in Advances, f \in {"players", "world", "damage"} :
      \E players \in ListsRead({<<>>, <<Seen("p1", 10)>>, <<Heard("p2", 50)>>}, adv) :
        Install(update(Seeker, Input("seeking", adv, 0, players, f /= "players",
                                     f = "world", f = "damage", FALSE, 10, TRUE)))

\* update() with a missing gameState or outside the seeking phase
UpdateOffPhase ==
    \E adv \in Advances, phase \in {None, "hiding"} :
        Install(update(Seeker, Input(phase, adv, 0, <<Seen("p1", 10)>>, TRUE, FALSE, FALSE, FALSE, 10, TRUE)))

\* part_003:256-259 (GameManager.startSeekingPhase)
StartSeekingPhase ==
    /\ state' = "patrolling"
    /\ ev' = Other("startSeekingPhase")
    /\ UNCHANGED <<target, lastKnownPosition, searchTime, currentPatrolIndex,
                   sinceDecision, stuckCheckTimer, stuckCounter, displaced, room,
                   catchCount, sentCount, lastSamples, steering, sight, playerVars,
                   worldVars>>

\* The owner of the targeted object changes it between two ticks: the
\* participant moves, dies (Player.die) or loses its position (the case
\* chase() guards against at aiSeeker.js:396).
TargetChanges ==
    /\ target.id /= None
    /\ \E alive \in BOOLEAN, d \in Dists \cup {NoPosition} :
          target' = [target EXCEPT !.isAlive = alive, !.dist = d]
    /\ target' /= target
    /\ ev' = Other("targetChanges")
    /\ UNCHANGED <<state, lastKnownPosition, searchTime, currentPatrolIndex,
                   sinceDecision, stuckCheckTimer, stuckCounter, displaced, room,
                   catchCount, sentCount, lastSamples, steering, sight, playerVars,
                   worldVars>>

Next == Update \/ UpdateFailing \/ UpdateOffPhase \/ StartSeekingPhase \/ TargetChanges

Spec == Init /\ [][Next]_vars

TypeOK ==
    /\ state \in States
    /\ target.id \in PlayerIds \cup {None}
    /\ lastKnownPosition \in PlayerIds \cup {None}
    /\ searchTime \in 0..(searchDuration + 1)
    /\ currentPatrolIndex \in 0..(numPatrolPoints - 1)
    /\ catchCount \in 0..MaxCount
    /\ sentCount \in 0..MaxCount

-----------------------------------------------------------------------------
(* Properties of the decision step and of update() *)

\* the log is of a call of update() whose decision step ran and returned
Decided == ev.op = "update" /\ ev.decided /\ ev.threw /= "decision"

\* id is the entry of the list at minimum distance, the earliest such entry
FirstClosest(list, id) ==
    \E i \in 1..Len(list) :
        /\ list[i].id = id
        /\ \A j \in 1..Len(list) : list[j].dist >= list[i].dist
        /\ \A j \in 1..(i - 1) : list[j].dist > list[i].dist

\* C1: at a decision step, a non-empty visible list makes the state Chasing
\* with the closest visible participant as target (the earliest of the list on
\* a distance tie), whatever is audible and whatever the state was; with nothing
\* visible, a non-empty audible list makes the state Searching on the closest
\* audible participant, with the same tie-break.
C1_DecisionPicksClosest ==
    Decided =>
        /\ Len(ev.visible) > 0 =>
              ev.decState = "chasing" /\ FirstClosest(ev.visible, ev.decTarget)
        /\ (Len(ev.visible) = 0 /\ Len(ev.audible) > 0) =>
              ev.decState = "searching" /\ FirstClosest(ev.audible, ev.decTarget)

\* C1 witness: two visible participants at the same distance while another
\* state than Chasing was current, and the first of the list became the target
C1_Witness ==
    /\ Decided
    /\ Len(ev.visible) = 2
    /\ ev.visible[1].dist = ev.visible[2].dist
    /\ ev.preState = "searching"
    /\ ev.decState = "chasing"
    /\ ev.decTarget = ev.visible[1].id

\* C2 (as claimed): once catchPlayer has run for a catch, exactly one
\* playerCaught message has been sent since the last decision step.
C2_ExactlyOneCaptureEvent ==
    catchCount >= 1 => sentCount = 1

\* C3 (as claimed): a decision step with nothing visible and nothing audible,
\* outside the expiry of a search, leaves the state as it was.
C3_StickyState ==
    (/\ Decided
     /\ Len(ev.visible) = 0
     /\ Len(ev.audible) = 0
     /\ ~(ev.preState = "searching" /\ searchTime > searchDuration))
        => ev.decState = ev.preState

\* C3 (amended): a decision step with nothing visible and nothing audible keeps
\* Searching until the search expires, and makes every other state Patrolling.
C3_StickyOnlyWhenSearching ==
    (/\ Decided
     /\ Len(ev.visible) = 0
     /\ Len(ev.audible) = 0)
        => ev.decState = IF ev.preState = "searching" /\ searchTime <= searchDuration
                         THEN "searching" ELSE "patrolling"

\* C3 witness: an empty decision step that kept the seeker Searching
C3_Witness ==
    /\ Decided
    /\ Len(ev.visible) = 0
    /\ Len(ev.audible) = 0
    /\ ev.preState = "searching"
    /\ ev.decState = "searching"
    /\ searchTime = 3

\* C4 (as claimed): a call of update() in the seeking phase that runs no
\* decision step ends in the state it started in.
C4_StateChangesOnlyInDecision ==
    (ev.op = "update" /\ ~ev.gated /\ ~ev.decided) => state = ev.preState

\* C4 (amended): a call of update() in the seeking phase that runs no decision
\* step and catches no exception ends in the state it started in, except that
\* chase() falls back to Patrolling when its target is missing or has no
\* position and search() falls back to Patrolling without a last known position.
C4_StateChangesOnlyByFallback ==
    (ev.op = "update" /\ ~ev.gated /\ ~ev.decided /\ ev.threw = "none")
        => state = IF \/ /\ ev.preState = "chasing"
                         /\ (ev.preTarget = None \/ target.dist = NoPosition)
                      \/ /\ ev.preState = "searching"
                         /\ lastKnownPosition = None
                   THEN "patrolling" ELSE ev.preState

\* C4 witness: a tick without a decision step in which chase() caught its target
C4_Witness ==
    /\ ev.op = "update"
    /\ ~ev.decided
    /\ ev.preState = "chasing"
    /\ ev.caught
    /\ state = "chasing"

\* C5: while Searching the timer never exceeds the search duration and a last
\* known position is held; every decision step that perceives nobody while
\* Searching adds one second to the timer, and the step that takes it past the
\* duration makes the state Patrolling and clears lastKnownPosition, so the
\* eleventh such step in a row ends the search whatever was drawn.
C5_SearchExpires ==
    /\ [](state = "searching" => (searchTime <= searchDuration /\ lastKnownPosition /= None))
    /\ [][(/\ ev'.op = "update"
           /\ ev'.decided
           /\ ev'.threw /= "decision"
           /\ ev'.preState = "searching"
           /\ Len(ev'.visible) = 0
           /\ Len(ev'.audible) = 0)
            => /\ searchTime' = searchTime + 1
               /\ searchTime' > searchDuration
                     => (ev'.decState = "patrolling" /\ lastKnownPosition' = None)]_vars

\* C5 witness: the decision step that ended a search by expiry
C5_Witness ==
    /\ Decided
    /\ ev.preState = "searching"
    /\ Len(ev.visible) = 0
    /\ Len(ev.audible) = 0
    /\ searchTime = searchDuration + 1
    /\ ev.decState = "patrolling"
    /\ lastKnownPosition = None

\* C6 (as claimed): a decision step that finds nobody visible while the seeker
\* is Chasing a target makes the state Searching, with a last known position.
C6_LostTargetIsSearched ==
    (/\ Decided
     /\ ev.preState = "chasing"
     /\ ev.preTarget /= None
     /\ Len(ev.visible) = 0)
        => (ev.decState = "searching" /\ lastKnownPosition /= None)

\* the chase target of the call has no valid entry in the players it was given
TargetInvalidated ==
    /\ ev.op = "update"
    /\ ev.decided
    /\ ev.preState = "chasing"
    /\ ev.preTarget /= None
    /\ ev.preTarget \notin ev.valid

\* C7 (as claimed): a decision step that runs when the chase target has been
\* invalidated leaves the state Patrolling.
C7_InvalidTargetPatrols ==
    (TargetInvalidated /\ ev.threw /= "decision") => ev.decState = "patrolling"

\* C7 (amended): a decision step that runs when the chase target has been
\* invalidated drops that target; the state is then Patrolling when nobody is
\* visible or audible, Chasing or Searching on a valid participant otherwise,
\* and Idle when the step failed.
C7_InvalidTargetDropped ==
    TargetInvalidated =>
        /\ target.id /= ev.preTarget
        /\ ev.threw = "decision" => state = "idle"
        /\ ev.threw /= "decision" =>
              /\ (Len(ev.visible) = 0 /\ Len(ev.audible) = 0)
                    => (ev.decState = "patrolling" /\ ev.decTarget = None)
              /\ (Len(ev.visible) > 0 \/ Len(ev.audible) > 0)
                    => (ev.decState \in {"chasing", "searching"} /\ ev.decTarget \in ev.valid)

\* C7 witness: the target p1 was invalidated, nobody was perceived, and the
\* decision step made the state Patrolling
C7_Witness ==
    /\ TargetInvalidated
    /\ ev.threw = "none"
    /\ ev.preTarget = "p1"
    /\ Len(ev.visible) = 0
    /\ Len(ev.audible) = 0
    /\ ev.decState = "patrolling"
    /\ target.id = None

\* C8 (as claimed): a call of update() in which anything failed, the capture
\* included, ends in Idle.
C8_AnyFailureEndsIdle ==
    (ev.op = "update" /\ (ev.threw /= "none" \/ ev.captureFailed)) => state = "idle"

\* C8 (amended): a failure of perception, of the decision step or of movement
\* ends the call in Idle; a failure inside catchPlayer is caught there and the
\* call ends in Chasing.
C8_FailureContained ==
    ev.op = "update" =>
        /\ ev.threw /= "none" => state = "idle"
        /\ ev.captureFailed => (ev.threw = "none" /\ state = "chasing")

\* C8 witness: the ray query of moveTowards threw while Chasing
C8_Witness ==
    /\ ev.op = "update"
    /\ ev.threw = "behaviour"
    /\ ev.preState = "chasing"
    /\ state = "idle"

\* C9: a call of update() with a missing game state or a phase other than
\* seeking ends in Idle and runs no decision, behaviour or capture; apart from
\* the state it leaves every field of the seeker as it was.
C9_OffPhaseOnlyForcesIdle ==
    [][(ev'.op = "update" /\ ev'.phase /= "seeking")
        => /\ state' = "idle"
           /\ ev'.gated
           /\ ~ev'.decided
           /\ ev'.behaviour = None
           /\ ~ev'.caught
           /\ UNCHANGED <<target, lastKnownPosition, searchTime, currentPatrolIndex,
                          stuckCheckTimer, stuckCounter, displaced, catchCount, sentCount>>]_vars

\* C9 witness: update() was called in the hiding phase while Chasing
C9_Witness ==
    /\ ev.op = "update"
    /\ ev.phase = "hiding"
    /\ ev.preState = "chasing"
    /\ state = "idle"

\* C10 (as claimed, over the calls in which nothing failed): in the Idle state
\* the seeker has no target.
C10_IdleHasNoTarget ==
    (state = "idle" /\ ev.threw = "none") => target.id = None

\* C22 (as claimed): when two consecutive calls of update() both run
\* makeDecision, more than decisionInterval (1000 ms) elapsed between them.
C22_DecisionsAnIntervalApart ==
    [][(ev.op = "update" /\ ev.decided /\ ev'.op = "update" /\ ev'.decided)
          => ev'.waited > 1000]_vars

\* C34: in every state, a seeker in Searching has a last known position, and
\* a call of update() that ran search() did not take its fallback to
\* Patrolling (it ends in Searching, or idle when the move threw).
C34_SearchingHasLastKnownPosition ==
    /\ state = "searching" => lastKnownPosition /= None
    /\ (ev.op = "update" /\ ev.behaviour = "searching") => state \in {"searching", "idle"}

\* C34 witness: between two decisions the seeker circles the last known
\* position of the participant it heard
C34_Witness ==
    /\ ev.op = "update"
    /\ ~ev.decided
    /\ ev.behaviour = "searching"
    /\ state = "searching"
    /\ lastKnownPosition = "p2"

\* the ids of the visible list of the logged decision step
VisibleIds(e) == {e.visible[i].id : i \in 1..Len(e.visible)}

\* C35: a call of update() that ends in Chasing ends with a target; when it
\* ran makeDecision the target is one of the visible participants of that
\* decision, and when it did not the seeker was already chasing the same
\* target, so the target is one of the visible participants of the most
\* recent decision.  A decision that sees nobody does not end in Chasing.
C35_ChasingAVisibleTarget ==
    [][(ev'.op = "update" /\ state' = "chasing") =>
          /\ target'.id /= None
          /\ ev'.decided => target'.id \in VisibleIds(ev')
          /\ ~ev'.decided => (state = "chasing" /\ target'.id = target.id)]_vars

\* C35 witness: the seeker keeps chasing, between two decisions, the
\* participant it saw at the last one
C35_Witness ==
    /\ ev.op = "update"
    /\ ~ev.decided
    /\ ev.preState = "chasing"
    /\ ev.behaviour = "chasing"
    /\ state = "chasing"
    /\ target.id = "p1"

\* C36 (as claimed): on every call of update() in which chase() moves toward
\* or captures its target, the target is alive.  A call that ran makeDecision
\* chases a participant its perception just found alive; on any other call
\* the target chase() is given is the one of the state before.
C36_ChaseActsOnLivingOnly ==
    [][(/\ ev'.op = "update"
        /\ ev'.behaviour = "chasing"
        /\ ~ev'.decided
        /\ target.dist /= NoPosition) => target.isAlive]_vars

-----------------------------------------------------------------------------
(* Stuck detection: update() with the simulation clock running *)

\* the players arguments of the ticks of this specification
TickLists == {<<>>, <<Seen("p1", 50)>>, <<Heard("p2", 50)>>}

\* One simulation tick of a seeking phase with deltaTime = 1 s (two ticks per
\* stuck-check interval): the seeker moves where its state makes it move, and
\* the move leaves it displaced from the last sampled position or not.
Tick ==
    \E adv \in Advances, moved \in BOOLEAN :
      \E players \in ListsRead(TickLists, adv) :
        Install(update(Seeker, Input("seeking", adv, 1, players, TRUE, FALSE, FALSE, FALSE, 50, moved)))

\* a tick in which a ray query throws: update() leaves through its catch block
\* before the stuck detection block
TickFailing ==
    \E adv \in Advances, moved \in BOOLEAN :
      \E players \in ListsRead(TickLists, adv) :
        Install(update(Seeker, Input("seeking", adv, 1, players, TRUE, TRUE, FALSE, FALSE, 50, moved)))

\* a tick outside the seeking phase
TickOffPhase ==
    \E adv \in Advances :
        Install(update(Seeker, Input("hiding", adv, 1, <<>>, TRUE, FALSE, FALSE, FALSE, 50, TRUE)))

StuckNext == Tick \/ TickFailing \/ TickOffPhase \/ StartSeekingPhase

StuckSpec == Init /\ [][StuckNext]_vars

\* C11: the random turn of stuck recovery is applied only at a stuck-check
\* sample, and only when that sample and the sample before it both showed a
\* near-zero displacement; the counter is 0 after a recovery and after every
\* sample with a significant displacement, and never exceeds 1 between samples,
\* so a single low sample never triggers the recovery.
C11_RecoveryAfterTwoLowSamples ==
    /\ stuckCounter \in {0, 1}
    /\ (ev.op = "update" /\ ev.recovered) =>
          /\ ev.sampled
          /\ ev.low
          /\ Len(lastSamples) = 2
          /\ lastSamples[1]
          /\ lastSamples[2]
          /\ stuckCounter = 0
    /\ (ev.op = "update" /\ ev.sampled /\ ~ev.low) => stuckCounter = 0
    /\ (ev.op = "update" /\ ev.sampled /\ ev.low /\ ~ev.recovered) => stuckCounter = 1

\* C11 witness: a recovery fired at the second of two low samples that came
\* after a sample with significant displacement had been remembered
C11_Witness ==
    /\ ev.op = "update"
    /\ ev.recovered
    /\ lastSamples = <<TRUE, TRUE>>
    /\ stuckCounter = 0
    /\ state = "chasing"

-----------------------------------------------------------------------------
(* Steering: the feeler rays of moveTowards *)

\* aiSeeker.js:451: the feelers, as angles in degrees around the desired direction
feelerAngles == <<0 - 30, 0, 30>>

feelerLength == 30
feelerDistanceThreshold == 25
blockedDistance == 10
blockedSpeedFactor == 2
slowedSpeedFactor == 5
fullSpeedFactor == 10

\* aiSeeker.js:478: result.hasHit ? result.distance : Infinity
FeelerDistance(hit) == IF hit = NoHit THEN Infinity ELSE hit

\* mutant: every feeler replaces the one before it
Better_always(distance, bestDistance) == TRUE

\* aiSeeker.js:480: if (distance > bestDistance)
Better(distance, bestDistance) == distance > bestDistance

\* aiSeeker.js:460-487: the loop over the feelers from the i-th on.  acc holds
\* bestDistance, chosenDirection (the angle of the feeler copied into it) and
\* foundClearPath.
RECURSIVE FeelerLoop(_, _, _)
FeelerLoop(hits, i, acc) ==
    IF i > Len(feelerAngles) THEN acc
    ELSE LET distance == FeelerDistance(hits[i])
         IN  IF Better(distance, acc.bestDistance)
             THEN FeelerLoop(hits, i + 1,
                             [bestDistance |-> distance,
                              chosenDirection |-> feelerAngles[i],
                              foundClearPath |-> acc.foundClearPath
                                                   \/ distance > feelerDistanceThreshold])
             ELSE FeelerLoop(hits, i + 1, acc)

\* mutant: only a blocked path slows the pursuer down
SpeedFactor_blockedOnly(acc) ==
    IF ~acc.foundClearPath /\ acc.bestDistance < blockedDistance
    THEN blockedSpeedFactor ELSE fullSpeedFactor

\* aiSeeker.js:489-497: the factor applied to the speed, in tenths
SpeedFactor(acc) ==
    IF ~acc.foundClearPath
    THEN IF acc.bestDistance < blockedDistance THEN blockedSpeedFactor
         ELSE IF acc.bestDistance < feelerDistanceThreshold THEN slowedSpeedFactor
         ELSE fullSpeedFactor
    ELSE fullSpeedFactor

\* aiSeeker.js:445-500: what moveTowards decides from the hits of its three
\* ray queries: chosenDirection starts as the desired direction (angle 0) and
\* bestDistance as -1
Steer(hits) ==
    LET acc == FeelerLoop(hits, 1, [bestDistance |-> 0 - 1, chosenDirection |-> 0,
                                    foundClearPath |-> FALSE])
    IN  [hits |-> hits, chosenDirection |-> acc.chosenDirection,
         bestDistance |-> acc.bestDistance, foundClearPath |-> acc.foundClearPath,
         speedFactor |-> SpeedFactor(acc)]

\* the hit distances a feeler of length 3.0 can report, in tenths
FeelerHits == {NoHit, 0, 9, 10, 24, 25, 26, 30}

\* a call of moveTowards (from patrol, chase or search) in a world where the
\* three ray queries return these hits
MoveTowards ==
    /\ \E left \in FeelerHits, center \in FeelerHits, right \in FeelerHits :
          steering' = Steer(<<left, center, right>>)
    /\ UNCHANGED <<seekerVars, ev, sight, playerVars, worldVars>>

SteeringNext == MoveTowards

SteeringSpec == Init /\ [][SteeringNext]_vars

\* the hit distance of the feeler at angle a in the logged call
DistanceAlong(a) ==
    FeelerDistance(steering.hits[CHOOSE k \in 1..Len(feelerAngles) : feelerAngles[k] = a])

\* the largest of the three hit distances of the logged call
FarthestDistance ==
    CHOOSE d \in {FeelerDistance(steering.hits[k]) : k \in 1..Len(feelerAngles)} :
        \A k \in 1..Len(feelerAngles) : FeelerDistance(steering.hits[k]) <= d

\* C12: after every call of moveTowards the chosen direction is that of a
\* feeler whose hit distance (Infinity without a hit) is the largest of the
\* three, and bestDistance is that distance.
C12_ChosenFeelerIsFarthest ==
    steering.hits /= <<>> =>
        /\ steering.chosenDirection \in {feelerAngles[k] : k \in 1..Len(feelerAngles)}
        /\ DistanceAlong(steering.chosenDirection) = FarthestDistance
        /\ steering.bestDistance = FarthestDistance

\* C12 witness: the right feeler alone was the farthest and was chosen
C12_Witness ==
    /\ steering.hits = <<9, 24, 26>>
    /\ steering.chosenDirection = 30
    /\ steering.bestDistance = 26

\* C13 (as claimed): when the center feeler is among the farthest, the chosen
\* direction is the desired direction itself.
C13_TiesFavorCenter ==
    (steering.hits /= <<>> /\ DistanceAlong(0) = FarthestDistance)
        => steering.chosenDirection = 0

\* the three hits of the logged call in every order
Reorderings ==
    {<<steering.hits[i], steering.hits[j], steering.hits[k]>> :
        <<i, j, k>> \in {p \in (1..3) \X (1..3) \X (1..3) : {p[1], p[2], p[3]} = 1..3}}

\* C31: after every call of moveTowards the speed factor depends on the largest
\* feeler hit distance only: 0.2 below 1.0, 0.5 from 1.0 up to but not
\* including 2.5, and 1.0 otherwise; the same three hits met in any other order
\* give the same factor.
C31_SpeedFactorByBestDistance ==
    steering.hits /= <<>> =>
        /\ steering.speedFactor = IF FarthestDistance < 10 THEN 2
                                  ELSE IF FarthestDistance < 25 THEN 5
                                  ELSE 10
        /\ \A hits \in Reorderings : Steer(hits).speedFactor = steering.speedFactor

\* C31 witness: the best of three different hits lies between the thresholds
\* and the pursuer moves at half speed
C31_Witness ==
    /\ steering.hits = <<10, 24, 9>>
    /\ steering.bestDistance = 24
    /\ steering.speedFactor = 5

-----------------------------------------------------------------------------
(* The stealth score of the local participant (src/player.js) *)

minStealth == 0
maxStealth == 100
hideSpotStealth == 85
openStealth == 5
crouchBonus == 15
walkPenalty == 5
runPenalty == 15
movingSpeed == 1
walkingSpeed == 25
hidingLevel == 90
walkSpeed == 50
runSpeed == 80
crouchSpeed == 20
jumpSpeed == 50

\* mutant: the sum is stored as it is
Clamp_none(baseStealth) == baseStealth

\* player.js:111: Math.max(minStealth, Math.min(maxStealth, baseStealth))
Clamp(baseStealth) ==
    LET capped == IF baseStealth < maxStealth THEN baseStealth ELSE maxStealth
    IN  IF capped > minStealth THEN capped ELSE minStealth

\* player.js:103: body.velocity.length(), squared, in tenths of a unit per second
SpeedSquared(p) == p.vh * p.vh + p.vy * p.vy

\* mutant: every movement costs the walking penalty
MovementPenalty_walkOnly(p) == IF SpeedSquared(p) > movingSpeed * movingSpeed THEN walkPenalty ELSE 0

\* player.js:101-109: speed > 0.1 && speed <= 2.5, else speed > 2.5
MovementPenalty(p) ==
    IF /\ SpeedSquared(p) > movingSpeed * movingSpeed
       /\ SpeedSquared(p) <= walkingSpeed * walkingSpeed
    THEN walkPenalty
    ELSE IF SpeedSquared(p) > walkingSpeed * walkingSpeed THEN runPenalty
    ELSE 0

\* mutant: the score falls by at most 10 a call
updateStealth_gradual(p) ==
    LET baseStealth ==
            (IF p.inHideSpot THEN hideSpotStealth ELSE openStealth)
          + (IF p.inDynamicHideZone THEN p.currentDynamicZoneBonus ELSE 0)
          + (IF p.isCrouching THEN crouchBonus ELSE 0)
          - MovementPenalty(p)
        level == IF p.stealthLevel > Clamp(baseStealth) + 10
                 THEN p.stealthLevel - 10 ELSE Clamp(baseStealth)
    IN  [p EXCEPT !.stealthLevel = level, !.isHiding = level >= hidingLevel]

\* player.js:89-113
updateStealth(p) ==
    LET baseStealth ==
            (IF p.inHideSpot THEN hideSpotStealth ELSE openStealth)
          + (IF p.inDynamicHideZone THEN p.currentDynamicZoneBonus ELSE 0)
          + (IF p.isCrouching THEN crouchBonus ELSE 0)
          - MovementPenalty(p)
        level == Clamp(baseStealth)
    IN  [p EXCEPT !.stealthLevel = level, !.isHiding = level >= hidingLevel]

\* player.js:135-147: the participant at x is inside the zone
InZone(zone, x) ==
    IF zone.type = "sphere"
    THEN (IF x > zone.center THEN x - zone.center ELSE zone.center - x) < zone.radius
    ELSE IF zone.type = "box"
    THEN x >= zone.min /\ x <= zone.max
    ELSE FALSE

\* mutant: the bonuses of the zones add up
BestBonus_sum(stealthBonus, bestBonus) == stealthBonus + bestBonus

\* player.js:151-153
BestBonus(stealthBonus, bestBonus) ==
    IF stealthBonus > bestBonus THEN stealthBonus ELSE bestBonus

\* player.js:133-155: the loop from the i-th zone on; acc holds bestBonus and inAnyZone
RECURSIVE ZoneLoop(_, _, _, _)
ZoneLoop(zones, x, i, acc) ==
    IF i > Len(zones) THEN acc
    ELSE IF InZone(zones[i], x)
    THEN ZoneLoop(zones, x, i + 1,
                  [bestBonus |-> BestBonus(zones[i].stealthBonus, acc.bestBonus),
                   inAnyZone |-> TRUE])
    ELSE ZoneLoop(zones, x, i + 1, acc)

\* player.js:115-159 (this.environment and this.body are set by the constructor)
checkDynamicHideZones(p, zones) ==
    IF Len(zones) = 0
    THEN [p EXCEPT !.inDynamicHideZone = FALSE, !.currentDynamicZoneBonus = 0]
    ELSE LET acc == ZoneLoop(zones, p.position, 1, [bestBonus |-> 0, inAnyZone |-> FALSE])
         IN  [p EXCEPT !.inDynamicHideZone = acc.inAnyZone,
                       !.currentDynamicZoneBonus = IF acc.inAnyZone THEN acc.bestBonus ELSE 0]

\* player.js:469-513: the keys held set the horizontal velocity, then
\* updateStealth() reads the body's velocity
updateMovement(p, moving, run, stamina) ==
    LET isRunning == run /\ stamina /\ ~p.isCrouching
        currentSpeed == IF isRunning THEN runSpeed
                        ELSE IF p.isCrouching THEN crouchSpeed ELSE walkSpeed
    IN  updateStealth([p EXCEPT !.isRunning = isRunning,
                                !.vh = IF moving THEN currentSpeed ELSE 0])

\* player.js:418-427: Player.update as far as the stealth score goes
playerUpdate(p, zones, moving, run, stamina) ==
    IF ~p.isAlive THEN p
    ELSE updateMovement(checkDynamicHideZones(p, zones), moving, run, stamina)

\* player.js:358-361, 570-592: KeyF flips keys.crouch, toggleCrouch copies it
toggleCrouch(p) == updateStealth([p EXCEPT !.isCrouching = ~p.isCrouching])

\* player.js:620-626
hide(p) == updateStealth([p EXCEPT !.inHideSpot = TRUE])

\* player.js:628-633
unhide(p) == updateStealth([p EXCEPT !.inHideSpot = FALSE])

\* player.js:595-618; nearSpot: some hide spot is within its interaction radius
tryHide(p, nearSpot) ==
    IF p.inHideSpot \/ p.isHiding THEN unhide(p)
    ELSE IF nearSpot THEN hide(p)
    ELSE updateStealth([p EXCEPT !.inHideSpot = FALSE])

\* Bounds of the stealth specification: x coordinates 0..MaxPosition
MaxPosition == 3

Positions == 0..MaxPosition

\* the horizontal speeds the physics step can leave the body with (damping,
\* collisions), besides the one it had, and the vertical ones (rest, fall)
SteppedSpeeds == {0, 1, 2, walkingSpeed, walkingSpeed + 1}
VerticalSpeeds == {0, jumpSpeed}

\* the zone lists an environment is loaded with: none, the predefined ones,
\* and bushes (bonus 15) overlapping other zones in either order
ZoneLists ==
    {<<>>,
     PredefinedZones,
     <<SphereZone(3, 2, 15), SphereZone(2, 1, 25)>>,
     <<SphereZone(1, 2, 25), SphereZone(2, 2, 15), BoxZone(3, 3, 20)>>}

StealthInit ==
    /\ SeekerInit
    /\ CollaboratorsInit
    /\ dynamicHideZones \in ZoneLists
    /\ grid = NoGrid

\* a step of the participant: the log names the operation; gated is TRUE for
\* a Player.update that returned at once because the participant is dead
PlayerStep(op, gated, p) ==
    /\ player' = p
    /\ ev' = [Other(op) EXCEPT !.gated = gated]
    /\ UNCHANGED <<seekerVars, steering, sight, dynamicHideZones, worldVars>>

\* part_001:760: player.update(deltaTime, gameState) with the keys held at that frame
PlayerUpdate ==
    \E moving \in BOOLEAN, run \in BOOLEAN, stamina \in BOOLEAN :
        PlayerStep("Player.update", ~player.isAlive,
                   playerUpdate(player, dynamicHideZones, moving, run, stamina))

\* keydown KeyF
ToggleCrouch == PlayerStep("toggleCrouch", FALSE, toggleCrouch(player))

\* left mouse button
TryHide == \E nearSpot \in BOOLEAN : PlayerStep("tryHide", FALSE, tryHide(player, nearSpot))

\* player.js:557-567: keydown Space on the ground: an upward impulse
Jump ==
    /\ player.vy = 0
    /\ PlayerStep("jump", FALSE, [player EXCEPT !.vy = jumpSpeed])

\* part_001:752: world.step integrates the body: it moves, is slowed or stopped
\* horizontally, and rises, falls or rests vertically
WorldStep ==
    \E x \in Positions, h \in SteppedSpeeds \cup {player.vh}, v \in VerticalSpeeds :
        /\ (h = 0 /\ v = 0) => x = player.position
        /\ PlayerStep("world.step", FALSE, [player EXCEPT !.position = x, !.vh = h, !.vy = v])

\* player.js:762-771: takeDamage(100) -> die()
Die ==
    /\ player.isAlive
    /\ PlayerStep("die", FALSE, [player EXCEPT !.isAlive = FALSE])

StealthNext == PlayerUpdate \/ ToggleCrouch \/ TryHide \/ Jump \/ WorldStep \/ Die

StealthSpec == StealthInit /\ [][StealthNext]_vars

\* the last step ended with updateStealth()
StealthRecomputed ==
    \/ ev.op \in {"toggleCrouch", "tryHide"}
    \/ ev.op = "Player.update" /\ ~ev.gated

\* C14: in every state of the participant, after its constructor and after
\* every operation, stealthLevel lies between minStealth (0) and maxStealth (100).
C14_StealthWithinBounds ==
    player.stealthLevel >= minStealth /\ player.stealthLevel <= maxStealth

\* C14 witness: hide spot, crouch and a zone of bonus 25 add up to 125, and the
\* recomputed level is 100
C14_Witness ==
    /\ StealthRecomputed
    /\ player.inHideSpot
    /\ player.isCrouching
    /\ player.inDynamicHideZone
    /\ player.currentDynamicZoneBonus = 25
    /\ player.vh = 0
    /\ player.vy = 0
    /\ player.stealthLevel = maxStealth

\* x brought into [0, 100]
Within0To100(x) == IF x < 0 THEN 0 ELSE IF x > 100 THEN 100 ELSE x

\* the score the spec describes for the participant's current flags, with the
\* given movement penalty
ScoreWithPenalty(penalty) ==
    Within0To100((IF player.inHideSpot THEN 85 ELSE 5)
                 + (IF player.inDynamicHideZone THEN player.currentDynamicZoneBonus ELSE 0)
                 + (IF player.isCrouching THEN 15 ELSE 0)
                 - penalty)

\* the penalty of a speed whose square is sq (tenths of a unit per second):
\* 5 in (0.1, 2.5], 15 above 2.5, else 0
PenaltyOfSpeedSquared(sq) == IF sq > 625 THEN 15 ELSE IF sq > 1 THEN 5 ELSE 0

\* C15: after every operation that recomputes stealth, stealthLevel is the
\* clamp to [0,100] of 85 (hide spot) or 5, plus the zone bonus when in a
\* dynamic zone, plus 15 when crouching, minus 5 when the speed of the body is
\* in (0.1, 2.5] and 15 when it is above 2.5; the speed is the magnitude of the
\* body's velocity.
C15_StealthFormula ==
    StealthRecomputed =>
        player.stealthLevel
            = ScoreWithPenalty(PenaltyOfSpeedSquared(player.vh * player.vh + player.vy * player.vy))

\* C15 witness: crouching in a zone of bonus 20 at speed 2.5 gives 5 + 20 + 15 - 5
C15_Witness ==
    /\ StealthRecomputed
    /\ ~player.inHideSpot
    /\ player.isCrouching
    /\ player.inDynamicHideZone
    /\ player.currentDynamicZoneBonus = 20
    /\ player.vh = 25
    /\ player.vy = 0
    /\ player.stealthLevel = 35

\* C16 (as claimed): after every operation that recomputes stealth, the
\* movement penalty in stealthLevel is the one of the horizontal speed alone,
\* so a participant with zero horizontal velocity has no penalty while it
\* jumps or falls.
C16_PenaltyByHorizontalSpeed ==
    StealthRecomputed =>
        player.stealthLevel = ScoreWithPenalty(PenaltyOfSpeedSquared(player.vh * player.vh))

\* the zones of the environment that contain the participant
ZonesAround == {k \in 1..Len(dynamicHideZones) : InZone(dynamicHideZones[k], player.position)}

\* C17: after checkDynamicHideZones (at the start of Player.update)
\* inDynamicHideZone tells whether some zone contains the participant and
\* currentDynamicZoneBonus is the largest stealthBonus of the zones that
\* contain it, 0 when none does; bonuses of overlapping zones never add up.
C17_ZoneBonusIsMaximum ==
    (ev.op = "Player.update" /\ ~ev.gated) =>
        /\ player.inDynamicHideZone = (ZonesAround /= {})
        /\ ZonesAround = {} => player.currentDynamicZoneBonus = 0
        /\ ZonesAround /= {} =>
              /\ \E k \in ZonesAround :
                    player.currentDynamicZoneBonus = dynamicHideZones[k].stealthBonus
              /\ \A k \in ZonesAround :
                    player.currentDynamicZoneBonus >= dynamicHideZones[k].stealthBonus

\* C17 witness: the participant is inside a zone of bonus 15 and a zone of
\* bonus 25, and the contribution is 25
C17_Witness ==
    /\ ev.op = "Player.update"
    /\ ~ev.gated
    /\ \E j \in ZonesAround, k \in ZonesAround :
          /\ dynamicHideZones[j].stealthBonus = 15
          /\ dynamicHideZones[k].stealthBonus = 25
    /\ player.currentDynamicZoneBonus = 25

\* the participant as it would be had its previous score been different
WithPreviousScore(level, hiding) ==
    [player EXCEPT !.stealthLevel = level, !.isHiding = hiding]

PreviousLevels == {0, 89, 100}

\* C33: a Player.update of a living participant leaves a stealthLevel and an
\* isHiding that do not depend on the values they had before: the same tick
\* (same keys, zones, flags and body velocity) from any other previous
\* stealthLevel and isHiding ends with the same two values, and isHiding is
\* stealthLevel >= 90.
C33_StealthIgnoresHistory ==
    [][(ev'.op = "Player.update" /\ ~ev'.gated) =>
          /\ player'.isHiding = (player'.stealthLevel >= 90)
          /\ \A moving \in BOOLEAN, run \in BOOLEAN, stamina \in BOOLEAN :
                playerUpdate(player, dynamicHideZones, moving, run, stamina) = player' =>
                  \A level \in PreviousLevels, hiding \in BOOLEAN :
                    LET other == playerUpdate(WithPreviousScore(level, hiding),
                                              dynamicHideZones, moving, run, stamina)
                    IN  /\ other.stealthLevel = player'.stealthLevel
                        /\ other.isHiding = player'.isHiding]_vars

\* C33 witness: a participant in a hide spot walks at full speed in a tick:
\* the score is 85 - 15 whatever it was while the participant stood still
C33_Witness ==
    /\ ev.op = "Player.update"
    /\ ~ev.gated
    /\ player.inHideSpot
    /\ ~player.isCrouching
    /\ ~player.inDynamicHideZone
    /\ player.vh = 50
    /\ player.vy = 0
    /\ player.stealthLevel = 70
    /\ ~player.isHiding

-----------------------------------------------------------------------------
(* Perception: getVisiblePlayers on its own *)

\* a living participant with stealth properties: stealth level, distance,
\* angle from the facing vector, how much longer the ray from the eye point
\* (1.5 above the seeker's position) is than that distance, the closest ray hit
\* (as its distance back from the participant's centre, or NoHit) and the
\* Math.random() sample
SightEntry(id, sl, d, ang, eye, back, r) ==
    [Entry(id, TRUE, d, sl, ang,
           IF back = NoHit THEN NoHit ELSE d + eye - back,
           FALSE, 0, FALSE, FALSE, r)
       EXCEPT !.eyeDist = d + eye]

SightStealths == {0, 89, 90, 100}
SightDists == {pointBlankDist, pointBlankDist + 1, viewDistance, viewDistance + 1}
SightAngles == {halfViewAngle, halfViewAngle + 1}
SightEyeOffsets == {0, 8}
SightHitsBack == {NoHit, losTolerance + 1, losTolerance, 1}
SightRolls == {0, 10, 99}

SightEntries(id) ==
    {SightEntry(id, sl, d, ang, eye, back, r) :
        sl \in SightStealths, d \in SightDists, ang \in SightAngles,
        eye \in SightEyeOffsets, back \in SightHitsBack, r \in SightRolls}

\* the players arguments: one participant of every kind; an entry that the
\* defensive skip drops before a participant; two participants of which the
\* first is in plain sight
SightLists ==
    {<<e>> : e \in SightEntries("p1")}
      \cup {<<x, SightEntry("p2", 100, pointBlankDist, ang, 0, NoHit, 99)>> :
               x \in {NullEntry, Dead("p1", 10), Lost("p1")}, ang \in SightAngles}
      \cup {<<SightEntry("p1", 0, pointBlankDist, halfViewAngle, 0, NoHit, 0),
              SightEntry("p2", sl, pointBlankDist, ang, 8, back, 99)>> :
               sl \in {0, 100}, ang \in SightAngles, back \in SightHitsBack}

\* a living participant as getAudiblePlayers reads it; it stands behind the
\* seeker
HearEntry(id, run, spd, crouch, sl, d) ==
    Entry(id, TRUE, d, sl, 90, NoHit, run, spd, crouch, FALSE, 50)

HearSpeeds == {0, 1, 2, 50}
HearStealths == {0, 50, 100}
HearDists == {0, 9, 10, 19, 20, 29, 30, 39, 40, 59, 60, 79, 80}

\* the players arguments for hearing: one participant of every kind; an
\* entry that the defensive skip drops before a participant
HearLists ==
    {<<HearEntry("p1", run, spd, crouch, sl, d)>> :
        run \in BOOLEAN, spd \in HearSpeeds, crouch \in BOOLEAN,
        sl \in HearStealths, d \in HearDists}
      \cup {<<x, HearEntry("p2", run, 0, FALSE, 0, 39)>> :
               x \in {NullEntry, [Heard("p1", 10) EXCEPT !.isAlive = FALSE], Lost("p1")},
               run \in BOOLEAN}

\* the perception of makeDecision (aiSeeker.js:227-228): both functions are
\* called with the same argument; the log keeps the argument, the entries for
\* which world.raycastClosest was called, and the two returned lists
Perceive(players) ==
    /\ sight' = [players |-> players,
                 rayCast |-> SelectSeq(players, ReachesLoS),
                 visible |-> getVisiblePlayers(players),
                 audible |-> getAudiblePlayers(players)]
    /\ UNCHANGED <<seekerVars, ev, steering, playerVars, worldVars>>

GetVisiblePlayers == \E players \in SightLists : Perceive(players)

GetAudiblePlayers == \E players \in HearLists : Perceive(players)

PerceptionNext == GetVisiblePlayers \/ GetAudiblePlayers

PerceptionSpec == Init /\ [][PerceptionNext]_vars

\* p is an element of the list
InList(p, list) == \E j \in 1..Len(list) : list[j] = p

\* a living participant with a position and stealth properties
LivingParticipant(p) ==
    p.present /\ p.isAlive /\ p.dist /= NoPosition /\ p.stealthLevel /= Undefined

\* C18 (as claimed): every living participant with stealthLevel >= 90 at a
\* distance <= 3 is ray-checked, whatever its random sample.
C18_PointBlankAlwaysRayChecked ==
    \A i \in 1..Len(sight.players) :
        LET p == sight.players[i]
        IN  (LivingParticipant(p) /\ p.stealthLevel >= 90 /\ p.dist <= 30)
                => InList(p, sight.rayCast)

\* C18 (amended): every living participant with stealthLevel >= 90 at a
\* distance <= 3 that is inside the view cone is ray-checked, whatever its
\* random sample; outside the view cone it is skipped before the ray query.
C18_PointBlankInConeRayChecked ==
    \A i \in 1..Len(sight.players) :
        LET p == sight.players[i]
        IN  (LivingParticipant(p) /\ p.stealthLevel >= 90 /\ p.dist <= 30)
                => (InList(p, sight.rayCast) <=> p.angle <= 30)

\* C18 witness: a participant at maximum stealth and distance 3.0, at the edge
\* of the view cone, whose sample 0.99 fails every gate, was ray-checked
C18_Witness ==
    \E i \in 1..Len(sight.players) :
        LET p == sight.players[i]
        IN  /\ p.stealthLevel = 100
            /\ p.dist = 30
            /\ p.angle = 30
            /\ p.roll = 99
            /\ InList(p, sight.rayCast)

\* C19: a participant whose angle from the facing vector exceeds viewAngle/2
\* (30 degrees) is not in the list getVisiblePlayers returns, whatever its
\* stealth, distance, ray result and random sample.
C19_OutsideConeNeverVisible ==
    \A i \in 1..Len(sight.players) :
        sight.players[i].angle > 30 => ~InList(sight.players[i], sight.visible)

\* C19 witness: of two unobstructed participants at distance 3.0, the one in
\* the cone was returned and the point-blank one just outside it was not
C19_Witness ==
    /\ Len(sight.players) = 2
    /\ Len(sight.visible) = 1
    /\ sight.visible[1] = sight.players[1]
    /\ sight.players[2].angle = 31
    /\ sight.players[2].stealthLevel = 100
    /\ sight.players[2].dist = 30
    /\ sight.players[2].hit = NoHit

\* C20 (as claimed): a participant whose ray is hit at any distance shorter
\* than the distance from the eye point to the participant is not returned.
C20_AnyCloserHitOccludes ==
    \A i \in 1..Len(sight.players) :
        LET p == sight.players[i]
        IN  (p.hit /= NoHit /\ p.hit < p.eyeDist) => ~InList(p, sight.visible)

\* C20 (amended): a participant whose ray is hit more than 0.5 before the
\* participant's centre is not returned; a hit within 0.5 of the centre does
\* not occlude.
C20_HitBeyondToleranceOccludes ==
    \A i \in 1..Len(sight.players) :
        LET p == sight.players[i]
        IN  /\ (p.hit /= NoHit /\ p.hit < p.eyeDist - 5) => ~InList(p, sight.visible)
            /\ (InList(p, sight.rayCast) /\ p.hit /= NoHit /\ p.hit >= p.eyeDist - 5)
                  => InList(p, sight.visible)

\* C20 witness: a participant that reached the ray query and was dropped
\* because the ray was hit 0.6 before its centre
C20_Witness ==
    \E i \in 1..Len(sight.players) :
        LET p == sight.players[i]
        IN  /\ InList(p, sight.rayCast)
            /\ p.hit = p.eyeDist - 6
            /\ ~InList(p, sight.visible)

\* an entry that is null, not alive or has no position
Skipped(p) == ~p.present \/ ~p.isAlive \/ p.dist = NoPosition

Evaluated(p) == ~Skipped(p)

\* C21: an entry that is null, not alive or without a position is in neither
\* returned list, and both lists are what the functions return for the
\* argument without those entries.
C21_InvalidEntriesSkipped ==
    LET rest == SelectSeq(sight.players, Evaluated)
    IN  /\ \A i \in 1..Len(sight.players) :
              Skipped(sight.players[i]) =>
                  /\ ~InList(sight.players[i], sight.visible)
                  /\ ~InList(sight.players[i], sight.audible)
        /\ sight.visible = getVisiblePlayers(rest)
        /\ sight.audible = getAudiblePlayers(rest)

\* C21 witness: a dead entry that is running 1.0 away comes before a running
\* participant 3.9 away, and only the participant was returned as audible
C21_Witness ==
    /\ Len(sight.players) = 2
    /\ ~sight.players[1].isAlive
    /\ sight.players[1].isRunning
    /\ sight.players[1].dist = 10
    /\ sight.audible = <<sight.players[2]>>

\* C29: a living participant outside the point-blank override and inside the
\* view cone reaches the ray query exactly when its distance does not exceed
\* 15.0 and its sample is < 1 - stealthLevel/maxStealth; at maximum stealth
\* it is never returned, at stealth 0 within 15.0 it always reaches the query.
C29_ProbabilityGate ==
    \A i \in 1..Len(sight.players) :
        LET p == sight.players[i]
        IN  (LivingParticipant(p) /\ ~(p.stealthLevel >= 90 /\ p.dist <= 30)) =>
                /\ p.dist > 150 => ~InList(p, sight.visible)
                /\ p.angle <= 30 =>
                      (InList(p, sight.rayCast)
                          <=> (p.dist <= 150 /\ p.roll * 100 < 100 * (100 - p.stealthLevel)))
                /\ p.stealthLevel = 100 =>
                      (~InList(p, sight.rayCast) /\ ~InList(p, sight.visible))
                /\ (p.stealthLevel = 0 /\ p.dist <= 150 /\ p.angle <= 30) =>
                      InList(p, sight.rayCast)

\* C29 witness: a participant of stealth 89 at 3.1 passed the gate with the
\* sample 0.10, and one of stealth 0 passed it with the sample 0.99
C29_Witness ==
    \E i \in 1..Len(sight.players) :
        LET p == sight.players[i]
        IN  /\ p.dist = 31
            /\ \/ p.stealthLevel = 89 /\ p.roll = 10
               \/ p.stealthLevel = 0 /\ p.roll = 99
            /\ InList(p, sight.rayCast)

\* the noise level of the claim in units of 1/400000: 1.0 if running, else 0.5
\* if the speed exceeds 0.1, else 0; halved if crouching; times
\* 1 - 0.5 * stealthLevel / 100
ClaimedNoise(p) ==
    (IF p.isRunning THEN 1000 ELSE IF p.speed > 1 THEN 500 ELSE 0)
        * (IF p.isCrouching THEN 1 ELSE 2) * (200 - p.stealthLevel)

-----------------------------------------------------------------------------
(* The animation frame: the order of the steps of one tick *)

\* mutant: the game manager is updated before the participant
NextStep_seekerFirst(pc) ==
    CASE pc = "world.step"         -> "gameManager.update"
      [] pc = "gameManager.update" -> "player.update"
      [] pc = "player.update"      -> "render"
      [] OTHER                     -> "world.step"

\* part_001:750-778: the statements of animate() in program order
NextStep(pc) ==
    CASE pc = "world.step"         -> "player.update"
      [] pc = "player.update"      -> "gameManager.update"
      [] pc = "gameManager.update" -> "render"
      [] OTHER                     -> "world.step"

\* an entry of room.presence as getActivePlayers reads it
Presence(id, hasPosition, alive, d, run) ==
    [id |-> id, hasPosition |-> hasPosition, isAlive |-> alive, dist |-> d, isRunning |-> run]

IsActive(pr) == pr.hasPosition /\ pr.isAlive

\* part_003:616-626: the record pushed for an entry: id, position, isHiding,
\* isRunning and velocity (a zero vector, or the plain object of the
\* presence, which has no length()).  It has no isAlive, stealthLevel,
\* maxStealth or isCrouching property.
ActiveRecord(pr) ==
    [Entry(pr.id, FALSE, pr.dist, Undefined, 0, NoHit, pr.isRunning, 0, FALSE, FALSE, 0)
        EXCEPT !.maxStealth = Undefined]

\* part_003:611-631
getActivePlayers(presence) ==
    LET active == SelectSeq(presence, IsActive)
    IN  [i \in 1..Len(active) |-> ActiveRecord(active[i])]

PresenceLists ==
    {<<>>,
     <<Presence("p1", TRUE, TRUE, 10, FALSE)>>,
     <<Presence("p1", TRUE, TRUE, 10, TRUE), Presence("p2", TRUE, FALSE, 50, FALSE)>>,
     <<Presence("p1", FALSE, TRUE, NoPosition, TRUE)>>}

\* what a call of AISeeker.update did, in the order of aiSeeker.js:164-184:
\* makeDecision with the line-of-sight ray queries of its perception, then
\* the per-state behaviour, whose moveTowards casts the feeler rays
SeekerEvents(e, in) ==
    (IF e.decided THEN <<"makeDecision">> ELSE <<>>)
      \o (IF e.decided /\ \E i \in 1..Len(in.players) : ReachesLoS(in.players[i])
          THEN <<"rayQuery">> ELSE <<>>)
      \o (IF e.behaviour /= None THEN <<"behaviour">> ELSE <<>>)
      \o (IF \/ e.behaviour = "patrolling" /\ ~in.atWaypoint
             \/ e.behaviour \in {"chasing", "searching"}
          THEN <<"rayQuery">> ELSE <<>>)

\* part_001:752: world.step integrates the body of the participant
FrameWorldStep ==
    /\ frame.pc = "world.step"
    /\ \E x \in Positions, h \in {0, player.vh} :
          /\ h = 0 => x = player.position
          /\ player' = [player EXCEPT !.position = x, !.vh = h]
    /\ frame' = [pc |-> NextStep(frame.pc), events |-> <<"world.step">>]
    /\ ev' = Other("world.step")
    /\ UNCHANGED <<seekerVars, steering, sight, dynamicHideZones, grid>>

\* part_001:760, player.js:418-429: checkDynamicHideZones, updateMovement with
\* its updateStealth, then the ray query of checkGrounded
FramePlayerUpdate ==
    /\ frame.pc = "player.update"
    /\ \E moving \in BOOLEAN, run \in BOOLEAN :
          player' = playerUpdate(player, dynamicHideZones, moving, run, TRUE)
    /\ frame' = [pc |-> NextStep(frame.pc),
                 events |-> frame.events \o
                     (IF player.isAlive
                      THEN <<"checkDynamicHideZones", "updateStealth", "rayQuery">>
                      ELSE <<>>)]
    /\ ev' = [Other("Player.update") EXCEPT !.gated = ~player.isAlive]
    /\ UNCHANGED <<seekerVars, steering, sight, dynamicHideZones, grid>>

\* what the perception of a decision step made of its players argument
Perception(players) ==
    [players |-> players,
     rayCast |-> SelectSeq(players, ReachesLoS),
     visible |-> getVisiblePlayers(players),
     audible |-> getAudiblePlayers(players)]

\* part_001:768, part_003:576-593: GameManager.update calls
\* aiSeeker.update(deltaTime, getActivePlayers(), gameState) in the seeking
\* phase only; `sight` keeps the perception of the most recent decision step
FrameGameManagerUpdate ==
    /\ frame.pc = "gameManager.update"
    /\ \E phase \in {"hiding", "seeking"}, adv \in Advances, atWaypoint \in BOOLEAN,
          presence \in PresenceLists :
          IF phase = "seeking"
          THEN \E in \in {Input(phase, adv, 0, getActivePlayers(presence), TRUE, FALSE, FALSE,
                                 atWaypoint, 10, TRUE)} :
                 \E r \in {update(Seeker, in)} :
                   /\ InstallSeeker(r)
                   /\ frame' = [pc |-> NextStep(frame.pc),
                                events |-> frame.events \o SeekerEvents(r.ev, in)]
                   /\ sight' = IF r.ev.decided THEN Perception(in.players) ELSE sight
          ELSE /\ frame' = [frame EXCEPT !.pc = NextStep(frame.pc)]
               /\ ev' = Other("GameManager.update")
               /\ UNCHANGED <<seekerVars, sight>>
    /\ UNCHANGED <<steering, playerVars, grid>>

\* part_001:778: the frame is drawn; the next one starts with world.step
FrameRender ==
    /\ frame.pc = "render"
    /\ frame' = [frame EXCEPT !.pc = NextStep(frame.pc)]
    /\ ev' = Other("render")
    /\ UNCHANGED <<seekerVars, steering, sight, playerVars, grid>>

FrameNext == FrameWorldStep \/ FramePlayerUpdate \/ FrameGameManagerUpdate \/ FrameRender

FrameSpec == Init /\ [][FrameNext]_vars

\* the positions of an event in the frame so far
At(what) == {i \in 1..Len(frame.events) : frame.events[i] = what}

\* C23: in every frame, world.step has run before any ray query, the
\* participant's stealth score has been recomputed before makeDecision runs
\* its perception, and makeDecision runs before the per-state movement.
C23_TickOrder ==
    /\ \A j \in At("rayQuery") : \E i \in At("world.step") : i < j
    /\ \A j \in At("makeDecision") :
          player.isAlive => \E i \in At("updateStealth") : i < j
    /\ \A j \in At("behaviour") : \A i \in At("makeDecision") : i < j

\* C23 witness: a frame in which the decision step and the patrol movement
\* with its feeler rays both ran
C23_Witness ==
    /\ frame.pc = "render"
    /\ frame.events = <<"world.step", "checkDynamicHideZones", "updateStealth", "rayQuery",
                        "makeDecision", "behaviour", "rayQuery">>

\* the records of the most recent decision step that are within view
\* distance, inside the view cone and have nothing between them and the
\* seeker; every record getActivePlayers hands over stands for a living
\* participant with a position (part_003:614)
InPlainView ==
    {i \in 1..Len(sight.players) :
        /\ sight.players[i].dist /= NoPosition
        /\ sight.players[i].dist <= 150
        /\ sight.players[i].angle <= 30
        /\ sight.players[i].hit = NoHit}

\* C38 (as claimed): when a decision step is handed the records of living
\* participants in plain view, they are in its visible list and the seeker
\* ends the call chasing one of them.
C38_HandedParticipantsAreChased ==
    (ev.op = "update" /\ ev.decided /\ InPlainView /= {}) =>
        /\ \A i \in InPlainView :
              \E j \in 1..Len(sight.visible) : sight.visible[j].id = sight.players[i].id
        /\ state = "chasing"
        /\ target.id \in {sight.players[i].id : i \in InPlainView}

-----------------------------------------------------------------------------
(* The navigation grid *)

\* Horizontal coordinates are in world units, heights in tenths of a unit,
\* slope angles in degrees.

cellSize == 4
worldMinX == 0 - 4
worldMinZ == 0

\* NavigationGrid.js:4: DEFAULT_MAX_SLOPE = Math.PI / 3.6
maxSlopeAngle == 50

\* NavigationGrid.js:111: the tolerance 0.1 of the vertical test
heightTolerance == 1

\* NavigationGrid.js:44-45: the centre of a cell
CenterX(gx) == worldMinX + gx * cellSize + cellSize \div 2
CenterZ(gz) == worldMinZ + gz * cellSize + cellSize \div 2

\* a CANNON.Body of the world: its type, the kind of shapes[0] ("none" for a
\* body without shapes), its axis-aligned bounds, and whether it is the body
\* that provides the ground surface
Body(type, shape, xs, zs, ys, isGround) ==
    [type |-> type, shape |-> shape, lx |-> xs[1], ux |-> xs[2], lz |-> zs[1], uz |-> zs[2],
     ly |-> ys[1], uy |-> ys[2], isGround |-> isGround]

Max(S) == CHOOSE m \in S : \A n \in S : n <= m

\* NavigationGrid.js:51-61: the closest hit of the ray cast down through the
\* centre of cell c.  `ground` gives, per cell, the slope angle of the ground
\* surface under the centre (NoHit where there is none) at height 0; a body
\* with a shape whose bounds have the centre strictly inside is hit on its
\* top, which is level.
Ray(ground, bodies, c) ==
    LET over == {i \in 1..Len(bodies) :
                    /\ ~bodies[i].isGround
                    /\ bodies[i].shape /= "none"
                    /\ bodies[i].lx < CenterX(c[1]) /\ CenterX(c[1]) < bodies[i].ux
                    /\ bodies[i].lz < CenterZ(c[2]) /\ CenterZ(c[2]) < bodies[i].uz}
    IN  IF over /= {}
        THEN [hasHit |-> TRUE, y |-> Max({bodies[i].uy : i \in over}), slopeAngle |-> 0]
        ELSE IF ground[c] /= NoHit
        THEN [hasHit |-> TRUE, y |-> 0, slopeAngle |-> ground[c]]
        ELSE [hasHit |-> FALSE, y |-> 0, slopeAngle |-> 0]

\* NavigationGrid.js:41-77: the ground pass
SlopePass(ground, bodies) ==
    [c \in Cells |->
        LET result == Ray(ground, bodies, c)
        IN  [walkable |-> result.hasHit /\ result.slopeAngle <= maxSlopeAngle,
             worldY |-> IF result.hasHit THEN result.y ELSE 0,
             hasHit |-> result.hasHit,
             slopeAngle |-> result.slopeAngle]]

\* NavigationGrid.js:91-97: the cell range of the body's bounds
InCellRange(body, c) ==
    LET minGx == IF (body.lx - worldMinX) \div cellSize > 0
                 THEN (body.lx - worldMinX) \div cellSize ELSE 0
        maxGx == IF (body.ux - worldMinX) \div cellSize < widthCells - 1
                 THEN (body.ux - worldMinX) \div cellSize ELSE widthCells - 1
        minGz == IF (body.lz - worldMinZ) \div cellSize > 0
                 THEN (body.lz - worldMinZ) \div cellSize ELSE 0
        maxGz == IF (body.uz - worldMinZ) \div cellSize < depthCells - 1
                 THEN (body.uz - worldMinZ) \div cellSize ELSE depthCells - 1
    IN  minGx <= c[1] /\ c[1] <= maxGx /\ minGz <= c[2] /\ c[2] <= maxGz

\* mutant: the cell, not its centre, is tested against the bounds
CentreInside_overlap(body, c) ==
    /\ CenterX(c[1]) + cellSize \div 2 > body.lx /\ CenterX(c[1]) - cellSize \div 2 < body.ux
    /\ CenterZ(c[2]) + cellSize \div 2 > body.lz /\ CenterZ(c[2]) - cellSize \div 2 < body.uz

\* NavigationGrid.js:109-110
CentreInside(body, c) ==
    /\ CenterX(c[1]) >= body.lx /\ CenterX(c[1]) <= body.ux
    /\ CenterZ(c[2]) >= body.lz /\ CenterZ(c[2]) <= body.uz

\* NavigationGrid.js:111
HeightInside(body, y) == y >= body.ly - heightTolerance /\ y <= body.uy + heightTolerance

\* mutant: no body blocks a cell
Blocks_never(body) == FALSE

\* NavigationGrid.js:115
Blocks(body) == body.type = "STATIC" /\ body.shape /= "Heightfield"

\* NavigationGrid.js:82-118: the body turns the node of cell c unwalkable
Marks(body, c, node) ==
    /\ body.shape /= "none"
    /\ InCellRange(body, c)
    /\ node.walkable
    /\ CentreInside(body, c)
    /\ HeightInside(body, node.worldY)
    /\ Blocks(body)

\* NavigationGrid.js:81-122: the obstacle pass, body by body
RECURSIVE ObstaclePass(_, _, _)
ObstaclePass(nodes, bodies, i) ==
    IF i > Len(bodies) THEN nodes
    ELSE ObstaclePass([c \in Cells |->
                          IF Marks(bodies[i], c, nodes[c])
                          THEN [nodes[c] EXCEPT !.walkable = FALSE] ELSE nodes[c]],
                      bodies, i + 1)

\* NavigationGrid.js:36-124: the grid after generateGrid(staticObstacleBodies)
\* in a world with that ground, with what the ground pass had decided
generateGrid(ground, bodies) ==
    LET first == SlopePass(ground, bodies)
        nodes == ObstaclePass(first, bodies, 1)
    IN  [generated |-> TRUE, ground |-> ground, bodies |-> bodies,
         hasHit |-> [c \in Cells |-> first[c].hasHit],
         slopeAngle |-> [c \in Cells |-> first[c].slopeAngle],
         slopePass |-> [c \in Cells |-> first[c].walkable],
         worldY |-> [c \in Cells |-> nodes[c].worldY],
         walkable |-> [c \in Cells |-> nodes[c].walkable],
         node |-> NoCell, neighbors |-> <<>>,
         op |-> "none", index |-> NoCell, worldPos |-> NullPos, coords |-> NoCell,
         found |-> NoCell]

\* NavigationGrid.js:126-131: the node of the cell, NoCell for null
getNode(x, y) ==
    IF x >= 0 /\ x < widthCells /\ y >= 0 /\ y < depthCells THEN <<x, y>> ELSE NoCell

\* mutant: unwalkable neighbours are returned too
Kept_any(walkable, neighbor) == neighbor /= NoCell

\* NavigationGrid.js:170: neighbor && neighbor.walkable
Kept(walkable, neighbor) == neighbor /= NoCell /\ walkable[neighbor]

\* NavigationGrid.js:153-171
getNeighbors(walkable, node) ==
    LET x == node[1]
        y == node[2]
        neighbors ==
            (IF x > 0 THEN <<getNode(x - 1, y)>> ELSE <<>>)
              \o (IF x < widthCells - 1 THEN <<getNode(x + 1, y)>> ELSE <<>>)
              \o (IF y > 0 THEN <<getNode(x, y - 1)>> ELSE <<>>)
              \o (IF y < depthCells - 1 THEN <<getNode(x, y + 1)>> ELSE <<>>)
        Filter(neighbor) == Kept(walkable, neighbor)
    IN  SelectSeq(neighbors, Filter)

(* The worlds a grid is generated for *)

\* level ground, and level ground with one cell that has no ground, a slope
\* of exactly maxSlopeAngle, or a steeper one
GroundPatterns ==
    {[c \in Cells |-> 0]}
      \cup {[c \in Cells |-> IF c = d THEN a ELSE 0] :
               d \in Cells, a \in {NoHit, maxSlopeAngle, maxSlopeAngle + 1}}

\* the body of the ground: the terrain heightfield (part_002:737-742) or the
\* ground plane (part_001:126-128), whose bounds reach far beyond the grid
GroundBody(shape) ==
    IF shape = "Heightfield"
    THEN Body("STATIC", shape, <<worldMinX, worldMinX + widthCells * cellSize>>,
              <<worldMinZ, worldMinZ + depthCells * cellSize>>, <<0, 30>>, TRUE)
    ELSE Body("STATIC", shape, <<worldMinX - 100, worldMinX + widthCells * cellSize + 100>>,
              <<worldMinZ - 100, worldMinZ + depthCells * cellSize + 100>>, <<0 - 100, 0>>, TRUE)

\* bounds along x: a strip of the first cell beside its centre, the first
\* cell, the middle of the first cell, from inside the first cell to inside
\* the third, the second cell onward, and bounds wider than the grid
XSpans == {<<0 - 4, 0 - 3>>, <<0 - 4, 0>>, <<0 - 3, 0 - 1>>, <<0 - 1, 5>>, <<1, 8>>, <<0 - 9, 20>>}
ZSpans == {<<0, 8>>, <<0, 4>>, <<3, 5>>}

\* resting on the ground, or raised above it
YSpans == {<<0, 20>>, <<15, 20>>}

Kinds == {<<"STATIC", "Box">>, <<"DYNAMIC", "Box">>, <<"STATIC", "Heightfield">>,
          <<"STATIC", "none">>}

Obstacles ==
    {Body(k[1], k[2], xs, zs, ys, FALSE) :
        k \in Kinds, xs \in XSpans, zs \in ZSpans, ys \in YSpans}
      \cup {Body("STATIC", "Box", <<0 - 2, 2>>, <<0, 8>>, <<0, 20>>, FALSE)}

\* the lists passed to generateGrid: nothing, one obstacle, the ground body
\* alone or before an obstacle, two boxes
BodyLists(shape) ==
    {<<>>, <<GroundBody(shape)>>}
      \cup {<<o>> : o \in Obstacles}
      \cup {<<GroundBody(shape), o>> : o \in Obstacles}
      \cup {<<Body("STATIC", "Box", <<0 - 4, 0>>, <<0, 4>>, <<0, 20>>, FALSE),
              Body("STATIC", "Box", xs, <<0, 8>>, ys, FALSE)>> :
               xs \in XSpans, ys \in YSpans}

\* a grid constructed for a world, not generated yet
LoadedGrids ==
    {[NoGrid EXCEPT !.ground = ground, !.bodies = bodies] :
        ground \in GroundPatterns, bodies \in BodyLists("Heightfield")}
      \cup {[NoGrid EXCEPT !.ground = [c \in Cells |-> 0], !.bodies = bodies] :
               bodies \in BodyLists("Plane")}

GridInit ==
    /\ SeekerInit
    /\ CollaboratorsInit
    /\ dynamicHideZones = PredefinedZones
    /\ grid \in LoadedGrids

GenerateGrid ==
    /\ grid' = generateGrid(grid.ground, grid.bodies)
    /\ UNCHANGED <<seekerVars, ev, steering, sight, playerVars, frame>>

GetNeighbors ==
    /\ grid.generated
    /\ \E node \in Cells :
          grid' = [grid EXCEPT !.node = node, !.neighbors = getNeighbors(grid.walkable, node)]
    /\ UNCHANGED <<seekerVars, ev, steering, sight, playerVars, frame>>

GridNext == GenerateGrid \/ GetNeighbors

GridSpec == GridInit /\ [][GridNext]_vars

\* the body is a static body with a shape that is not the ground
StaticObstacle(body) == body.type = "STATIC" /\ body.shape /= "none" /\ ~body.isGround

\* the horizontal bounds of the body overlap the square of cell c
OverlapsCell(body, c) ==
    /\ body.lx < CenterX(c[1]) + 2 /\ body.ux > CenterX(c[1]) - 2
    /\ body.lz < CenterZ(c[2]) + 2 /\ body.uz > CenterZ(c[2]) - 2

\* the horizontal bounds of the body contain the centre of cell c
OverCentre(body, c) ==
    /\ body.lx <= CenterX(c[1]) /\ CenterX(c[1]) <= body.ux
    /\ body.lz <= CenterZ(c[2]) /\ CenterZ(c[2]) <= body.uz

\* the recorded ground height of cell c is within the vertical bounds of
\* the body, with the tolerance 0.1
AtGroundHeight(body, c) == body.ly - 1 <= grid.worldY[c] /\ grid.worldY[c] <= body.uy + 1

\* C24 (as claimed): a cell is walkable exactly when its ray hit a surface
\* of slope <= maxSlopeAngle and no static obstacle's bounds overlap the cell
\* at the recorded ground height.
C24_WalkableIffNoOverlap ==
    grid.generated =>
        \A c \in Cells :
            grid.walkable[c] <=>
                /\ grid.hasHit[c]
                /\ grid.slopeAngle[c] <= 50
                /\ ~\E i \in 1..Len(grid.bodies) :
                      /\ StaticObstacle(grid.bodies[i])
                      /\ OverlapsCell(grid.bodies[i], c)
                      /\ AtGroundHeight(grid.bodies[i], c)

\* C24 (amended): a cell is walkable exactly when its ray hit a surface of
\* slope <= maxSlopeAngle and no static body of the list whose first shape is
\* not a heightfield has the cell's centre within its horizontal bounds and
\* the recorded ground height within its vertical bounds; a cell whose ray
\* hit nothing is unwalkable, and a walkable cell was walkable after the
\* ground pass.
C24_WalkableIffNoBodyOverCentre ==
    grid.generated =>
        \A c \in Cells :
            /\ grid.walkable[c] <=>
                  /\ grid.hasHit[c]
                  /\ grid.slopeAngle[c] <= 50
                  /\ ~\E i \in 1..Len(grid.bodies) :
                        /\ grid.bodies[i].type = "STATIC"
                        /\ grid.bodies[i].shape \notin {"none", "Heightfield"}
                        /\ OverCentre(grid.bodies[i], c)
                        /\ AtGroundHeight(grid.bodies[i], c)
            /\ ~grid.hasHit[c] => ~grid.walkable[c]
            /\ grid.walkable[c] => grid.slopePass[c]

\* C24 witness: a static box whose bounds overlap the first cell beside its
\* centre left that cell walkable, and the grid has a cell without ground
C24_Witness ==
    /\ grid.generated
    /\ Len(grid.bodies) = 1
    /\ StaticObstacle(grid.bodies[1])
    /\ grid.bodies[1].shape = "Box"
    /\ OverlapsCell(grid.bodies[1], <<0, 0>>)
    /\ ~OverCentre(grid.bodies[1], <<0, 0>>)
    /\ grid.walkable[<<0, 0>>]
    /\ \E c \in Cells : ~grid.hasHit[c] /\ ~grid.walkable[c]

\* the list holds one body, a static box that is not the ground
SingleBox == Len(grid.bodies) = 1 /\ StaticObstacle(grid.bodies[1]) /\ grid.bodies[1].shape = "Box"

\* C25: on level ground without obstacles every cell is walkable; with a
\* single static box, the cells whose centre the box covers are unwalkable
\* and every other cell is as the ground pass left it (a cell the box covers
\* entirely is unwalkable, a cell it does not touch is untouched).
C25_FlatGroundAndSingleBox ==
    grid.generated =>
        /\ (grid.bodies = <<>> /\ \A c \in Cells : grid.ground[c] = 0) =>
              \A c \in Cells : grid.walkable[c]
        /\ SingleBox =>
              \A c \in Cells :
                  /\ OverCentre(grid.bodies[1], c) => ~grid.walkable[c]
                  /\ ~OverCentre(grid.bodies[1], c) => grid.walkable[c] = grid.slopePass[c]
                  /\ ~OverlapsCell(grid.bodies[1], c) => grid.walkable[c] = grid.slopePass[c]
                  /\ (/\ grid.bodies[1].lx <= CenterX(c[1]) - 2 /\ CenterX(c[1]) + 2 <= grid.bodies[1].ux
                      /\ grid.bodies[1].lz <= CenterZ(c[2]) - 2 /\ CenterZ(c[2]) + 2 <= grid.bodies[1].uz)
                        => ~grid.walkable[c]

\* C25 witness: a box over exactly the first cell on level ground: that cell
\* is unwalkable and the others are walkable
C25_Witness ==
    /\ grid.generated
    /\ SingleBox
    /\ \A c \in Cells : grid.ground[c] = 0
    /\ grid.bodies[1].lx = 0 - 4 /\ grid.bodies[1].ux = 0
    /\ grid.bodies[1].lz = 0 /\ grid.bodies[1].uz = 4
    /\ \A c \in Cells : grid.walkable[c] <=> c /= <<0, 0>>

\* C26 (as claimed): when the list holds the body of the ground, whatever its
\* shape, every cell keeps the walkability of the ground pass.
C26_GroundBodyNeverBlocks ==
    (grid.generated /\ Len(grid.bodies) = 1 /\ grid.bodies[1].isGround) =>
        \A c \in Cells : grid.walkable[c] = grid.slopePass[c]

\* the cells beside, before or behind the cell
Cardinal(c) == {n \in Cells : (n[1] = c[1] /\ (n[2] - c[2]) \in {0 - 1, 1})
                                 \/ (n[2] = c[2] /\ (n[1] - c[1]) \in {0 - 1, 1})}

\* C27: getNeighbors returns, without repetition, exactly the walkable cells
\* among the cardinal neighbours inside the grid: no diagonal cell, no
\* unwalkable cell, no cell outside the grid and not the cell itself.
C27_NeighborsAreWalkableCardinals ==
    grid.node /= NoCell =>
        /\ {grid.neighbors[i] : i \in 1..Len(grid.neighbors)}
              = {n \in Cardinal(grid.node) : grid.walkable[n]}
        /\ Cardinality({grid.neighbors[i] : i \in 1..Len(grid.neighbors)}) = Len(grid.neighbors)
        /\ \A i \in 1..Len(grid.neighbors) :
              /\ grid.neighbors[i] \in Cells
              /\ grid.neighbors[i] /= grid.node
              /\ grid.walkable[grid.neighbors[i]]

\* C27 witness: the middle cell of the first row has an unwalkable
\* neighbour beside it and got its two walkable neighbours
C27_Witness ==
    /\ grid.node = <<1, 0>>
    /\ ~grid.walkable[<<0, 0>>]
    /\ grid.walkable[<<1, 0>>]
    /\ Len(grid.neighbors) = 2
    /\ grid.walkable[<<1, 1>>]

-----------------------------------------------------------------------------
(* Rounds: the seeker across restartGame *)

\* part_003:384-423 (GameManager.restartGame, on the host): the game state
\* goes back to the lobby; the lines that would reset the seeker (419-420)
\* are comments, so no field of the seeker is assigned
RestartGame ==
    /\ ev' = Other("restartGame")
    /\ UNCHANGED <<seekerVars, steering, sight, playerVars, worldVars>>

RoundNext == Tick \/ TickOffPhase \/ StartSeekingPhase \/ RestartGame

RoundSpec == Init /\ [][RoundNext]_vars

\* C28 (as claimed): when restartGame has run, the seeker's target, last
\* known position, search timer, patrol index and stuck counter have their
\* initial values.
C28_RestartRestoresSeeker ==
    ev.op = "restartGame" =>
        /\ target.id = None
        /\ lastKnownPosition = None
        /\ searchTime = 0
        /\ currentPatrolIndex = 0
        /\ stuckCounter = 0

-----------------------------------------------------------------------------
(* Patrol: the waypoint index across the states of the seeker *)

\* the players arguments of the ticks of this specification
PatrolLists == {<<>>, <<Seen("p1", 50)>>, <<Heard("p2", 50)>>}

\* what the tick found at aiSeeker.js:377-379, were patrol() to run: the
\* seeker is within 2 units of patrolPoints[currentPatrolIndex] or not
Waypoint(atWaypoint) ==
    [pc |-> "gameManager.update", events |-> IF atWaypoint THEN <<"nearWaypoint">> ELSE <<>>]

\* a tick of the seeking phase; the seeker stands near its current waypoint
\* or away from it
PatrolTick ==
    /\ \E adv \in Advances, atWaypoint \in BOOLEAN :
         \E players \in ListsRead(PatrolLists, adv) :
           /\ InstallSeeker(update(Seeker, Input("seeking", adv, 0, players, TRUE, FALSE,
                                                 FALSE, atWaypoint, 50, TRUE)))
           /\ frame' = Waypoint(atWaypoint)
    /\ UNCHANGED <<steering, sight, playerVars, grid>>

\* a tick in which a ray query throws: the catch block of update() leaves the
\* seeker idle
PatrolTickFailing ==
    /\ \E adv \in Advances, atWaypoint \in BOOLEAN :
         \E players \in ListsRead(PatrolLists, adv) :
           /\ InstallSeeker(update(Seeker, Input("seeking", adv, 0, players, TRUE, TRUE,
                                                 FALSE, atWaypoint, 50, TRUE)))
           /\ frame' = Waypoint(atWaypoint)
    /\ UNCHANGED <<steering, sight, playerVars, grid>>

\* a tick outside the seeking phase
PatrolTickOffPhase ==
    /\ \E adv \in Advances, atWaypoint \in BOOLEAN :
           /\ InstallSeeker(update(Seeker, Input("hiding", adv, 0, <<>>, TRUE, FALSE,
                                                 FALSE, atWaypoint, 50, TRUE)))
           /\ frame' = Waypoint(atWaypoint)
    /\ UNCHANGED <<steering, sight, playerVars, grid>>

PatrolNext == PatrolTick \/ PatrolTickFailing \/ PatrolTickOffPhase \/ StartSeekingPhase

PatrolSpec == Init /\ [][PatrolNext]_vars

\* patrol() ran in the step and found the seeker near its waypoint
ReachedWaypoint ==
    /\ ev'.op = "update"
    /\ ev'.behaviour = "patrolling"
    /\ frame'.events = <<"nearWaypoint">>

\* C32: the waypoint index stays within 0..7; it advances by exactly one
\* modulo the eight patrol points on a tick where patrol() runs with the
\* seeker within 2 units of the current waypoint and is unchanged by every
\* other step, whatever states the seeker passes through in between.
C32_PatrolIndexCycles ==
    /\ [](currentPatrolIndex \in 0..7)
    /\ [][IF ReachedWaypoint
          THEN currentPatrolIndex' = (currentPatrolIndex + 1) % 8
          ELSE currentPatrolIndex' = currentPatrolIndex]_vars

\* C32 witness: the seeker left Patrolling for a chase with its index at the
\* last waypoint, and on the tick it came back it reached that waypoint and
\* went on to the first
C32_Witness ==
    /\ ev.op = "update"
    /\ ev.preState = "chasing"
    /\ ev.behaviour = "patrolling"
    /\ frame.events = <<"nearWaypoint">>
    /\ currentPatrolIndex = 0

-----------------------------------------------------------------------------
(* Hearing: the participant of src/player.js as getAudiblePlayers reads it *)

\* player.js:742-760: the fields the participant publishes and the perception
\* of the seeker reads, for a participant d tenths of a unit from the seeker.
\* No velocity is published (player.js:748 is a comment, and the Player object
\* has no velocity property either, player.js:15), so the test of
\* aiSeeker.js:335 finds no vector to measure.
Published(p, d) ==
    Entry("p1", p.isAlive, d, p.stealthLevel, 90, NoHit, p.isRunning, Undefined,
          p.isCrouching, TRUE, 50)

\* the distances of the listening seeker
OverhearDists == {10, 50, 79, 80}

\* aiSeeker.js:320-355 called with the participant as it is now
Overhear ==
    /\ \E d \in OverhearDists :
          \E players \in {<<Published(player, d)>>} :
            sight' = Perception(players)
    /\ ev' = Other("getAudiblePlayers")
    /\ UNCHANGED <<seekerVars, steering, playerVars, worldVars>>

HearingNext == PlayerUpdate \/ ToggleCrouch \/ TryHide \/ Overhear

HearingSpec == Init /\ [][HearingNext]_vars

-----------------------------------------------------------------------------
(* The navigation grid: cell indices and world positions *)

\* mutant: the quotient is truncated toward zero
CellIndex_truncates(offset) ==
    IF offset < 0 THEN 0 - ((0 - offset) \div cellSize) ELSE offset \div cellSize

\* NavigationGrid.js:135-136: Math.floor(offset / cellSize)
CellIndex(offset) == offset \div cellSize

\* NavigationGrid.js:133-141: the cell of a world position, NoCell for null
worldToGridCoordinates(worldPos) ==
    IF ~worldPos.present THEN NoCell
    ELSE LET gx == CellIndex(worldPos.x - worldMinX)
             gz == CellIndex(worldPos.z - worldMinZ)
         IN  IF gx >= 0 /\ gx < widthCells /\ gz >= 0 /\ gz < depthCells
             THEN <<gx, gz>> ELSE NoCell

\* NavigationGrid.js:143-150: the centre of a cell, at the height of its node
\* (0 without a node)
gridToWorldCoordinates(worldY, gridX, gridY) ==
    LET node == getNode(gridX, gridY)
    IN  WorldPos(worldMinX + gridX * cellSize + cellSize \div 2,
                 IF node /= NoCell THEN worldY[node] ELSE 0,
                 worldMinZ + gridY * cellSize + cellSize \div 2)

\* the grids of this specification: generateGrid has run on level ground, on
\* ground with a hole or a slope, without obstacles
CoordInit ==
    /\ SeekerInit
    /\ CollaboratorsInit
    /\ dynamicHideZones = PredefinedZones
    /\ grid \in {generateGrid(ground, <<GroundBody("Heightfield")>>) :
                    ground \in {[c \in Cells |-> 0],
                                [c \in Cells |-> IF c = <<0, 0>> THEN NoHit ELSE 0]}}

\* the world positions asked for: a cell's width around the grid in both
\* directions, and null
WorldPositions ==
    {WorldPos(x, 0, z) :
        x \in (worldMinX - cellSize)..(worldMinX + widthCells * cellSize + cellSize),
        z \in (worldMinZ - cellSize)..(worldMinZ + depthCells * cellSize + cellSize)}
      \cup {NullPos}

\* the centre of a cell of the grid, and the cell of that centre
GridToWorldCoordinates ==
    /\ \E c \in Cells :
          \E pos \in {gridToWorldCoordinates(grid.worldY, c[1], c[2])} :
            grid' = [grid EXCEPT !.op = "gridToWorldCoordinates", !.index = c,
                                 !.worldPos = pos,
                                 !.coords = worldToGridCoordinates(pos),
                                 !.found = NoCell]
    /\ UNCHANGED <<seekerVars, ev, steering, sight, playerVars, frame>>

WorldToGridCoordinates ==
    /\ \E pos \in WorldPositions :
          grid' = [grid EXCEPT !.op = "worldToGridCoordinates", !.index = NoCell,
                               !.worldPos = pos,
                               !.coords = worldToGridCoordinates(pos),
                               !.found = NoCell]
    /\ UNCHANGED <<seekerVars, ev, steering, sight, playerVars, frame>>

GetNode ==
    /\ \E x \in (0 - 1)..widthCells, y \in (0 - 1)..depthCells :
          grid' = [grid EXCEPT !.op = "getNode", !.index = <<x, y>>,
                               !.worldPos = NullPos, !.coords = NoCell,
                               !.found = getNode(x, y)]
    /\ UNCHANGED <<seekerVars, ev, steering, sight, playerVars, frame>>

CoordNext == GridToWorldCoordinates \/ WorldToGridCoordinates \/ GetNode

CoordSpec == CoordInit /\ [][CoordNext]_vars

\* the world position lies outside the horizontal extent of the grid, which
\* starts at x = -4, z = 0 and has cells 4 units wide
OutsideExtent(pos) ==
    \/ pos.x < 0 - 4
    \/ pos.x >= 0 - 4 + 4 * widthCells
    \/ pos.z < 0
    \/ pos.z >= 4 * depthCells

\* C39: the cell of the centre of a cell (x, y) of the grid is (x, y); a world
\* position outside the horizontal extent of the grid has no cell; and
\* getNode returns null for every index outside
\* [0, widthCells) x [0, depthCells).
C39_CoordinatesRoundTrip ==
    /\ grid.op = "gridToWorldCoordinates" => grid.coords = grid.index
    /\ (grid.op = "worldToGridCoordinates" /\ grid.worldPos.present
           /\ OutsideExtent(grid.worldPos)) => grid.coords = NoCell
    /\ (grid.op = "getNode" /\ grid.index \notin Cells) => grid.found = NoCell

\* C39 witness: the centre of the last cell of the grid was taken back to it
C39_Witness ==
    /\ grid.op = "gridToWorldCoordinates"
    /\ grid.index = <<widthCells - 1, depthCells - 1>>
    /\ grid.worldPos.x = 0 - 4 + 4 * widthCells - 2
    /\ grid.worldPos.z = 4 * depthCells - 2
    /\ grid.coords = <<widthCells - 1, depthCells - 1>>

====
